---- MODULE Spec2Model ----
(***************************************************************************)
(* A model of apn_storage: the synchronization engine of sync.py (the      *)
(* lazy walk of utils.py, the two-pointer diff, the sequential executor    *)
(* and the multiprocessing worker pool), the caching wrapper of            *)
(* wrapfs/cachefs.py and the layered filesystem of multifs.py and          *)
(* layeredfs.py.                                                           *)
(*                                                                         *)
(* Paths are sequences of one-character strings, compared the way Python   *)
(* compares str values: code point by code point, a proper prefix first.   *)
(***************************************************************************)
EXTENDS Integers, Sequences, FiniteSets, TLC

VARIABLES
    source_fs,       \* the origin filesystem (never mutated by a sync)
    target_fs,       \* the target filesystem
    target0,         \* target_fs as it was when the current run started
    in_source,       \* sync_files' source_files argument when it is a list
    in_target,       \* sync_files' target_files argument when it is a list
    delete_missing,  \* sync_files' delete_missing argument
    processes,       \* sync_files' processes argument (0: sequential)
    gen,             \* the suspended _get_sync_actions generator
    status,          \* "running", "returned", "raised" (sync_files itself)
    result,          \* the value sync_files returned ("none" before)
    run,             \* 1 for the first sync_fs call, 2 for the second
    emitted,         \* the actions the action stream yielded in this run
    applied,         \* the actions that completed in this run
    failed,          \* the actions that raised in this run, with the error
    pending,         \* parallel: the action the producer is about to put
    file_queue,      \* parallel: the JoinableQueue's items
    unfinished,      \* parallel: the JoinableQueue's unfinished-task count
    finished,        \* parallel: the finished Event
    errored,         \* parallel: the errored Event
    workers,         \* parallel: each worker process' position and action
    wrapped_fs,      \* CacheFS: the wrapped (source) filesystem
    cachefs,         \* CacheFS: the cache backend
    handles,         \* CacheFS: the open CacheFile write handles
    cache_op,        \* CacheFS: what the last call did, saw and returned
    cache_hist,      \* CacheFS: per path, the reads and writes so far
    fs_sequence,     \* MultiFS: the layers, in the order they are searched
    writefs,         \* MultiFS: the write layer (its place in fs_sequence)
    layers0,         \* MultiFS: the layers as they were when it was built
    multi_op,        \* MultiFS: what the last call did, saw and returned
    test_mode,       \* CacheFS, MultiFS: test_mode and what enabling it saved
    _cache,          \* make_fs_from_string: its registry of instances
    instances,       \* make_fs_from_string: the instances built, per string
    threads,         \* the threads calling concurrently, each one's position
    lock,            \* the lock the concurrent callers go through
    _hide_wildcards, \* HideFS: the wildcards it was built with
    hide_op          \* HideFS: what the last call returned

cacheVars == <<wrapped_fs, cachefs, handles, cache_op, cache_hist>>

multiVars == <<fs_sequence, writefs, layers0, multi_op>>

\* The wrappers, which a sync run of this model does not go through.
threadVars == <<_cache, instances, threads, lock>>

hideVars == <<_hide_wildcards, hide_op>>

wrapVars == <<cacheVars, multiVars, test_mode, threadVars, hideVars>>

syncVars == <<source_fs, target_fs, target0, in_source, in_target,
              delete_missing, processes, gen, status, result, run, emitted,
              applied, failed, pending, file_queue, unfinished, finished,
              errored, workers>>

vars == <<syncVars, wrapVars>>

parVars == <<pending, file_queue, unfinished, finished, errored, workers>>

-----------------------------------------------------------------------------
(* Bounds of the model.                                                    *)

\* File sizes are drawn from 1..MaxSize.
MaxSize == 2

\* The retry bound of upload_file (xrange(100)).
RetryBound == 100

\* sync_files' processes argument is drawn from 1..MaxProcesses in parallel
\* mode.
MaxProcesses == 2

\* CacheFS: the data chunks a write carries are 1..MaxChunk, a file holds at
\* most MaxLen chunks, and at most MaxHandles write handles are open.
MaxChunk == 1
MaxLen == 2
MaxHandles == 1
MaxLayers == 4
MaxThreads == 2
MaxCalls == 2

\* The capacity of the JoinableQueue (maxsize=1000 in sync.py), scaled down
\* so that the producer's put does block.
QueueMaxSize == 2

-----------------------------------------------------------------------------
(* Strings and paths.                                                      *)

\* The characters used in paths, in code point order: '.' < '/' < 'a' < 'b'.
Alphabet == <<".", "/", "a", "b">>

Ord(c) == CHOOSE i \in 1..Len(Alphabet) : Alphabet[i] = c

\* Python's str.__lt__ .
RECURSIVE StrLess(_, _)
StrLess(p, q) ==
    IF q = <<>> THEN FALSE
    ELSE IF p = <<>> THEN TRUE
    ELSE IF Head(p) = Head(q) THEN StrLess(Tail(p), Tail(q))
    ELSE Ord(Head(p)) < Ord(Head(q))

Root == <<"/">>

\* os.path.dirname on a normalized absolute path.
dirname(p) ==
    LET i == CHOOSE k \in 1..Len(p) :
                 p[k] = "/" /\ \A m \in (k+1)..Len(p) : p[m] # "/"
    IN  IF i = 1 THEN Root ELSE SubSeq(p, 1, i - 1)

\* The directories makedir(recursive=True) has to provide for directory d.
Ancestors(d) ==
    IF d = Root THEN {}
    ELSE {SubSeq(d, 1, k - 1) : k \in {m \in 2..Len(d) : d[m] = "/"}} \cup {d}

-----------------------------------------------------------------------------
(* The filesystem contract the engine consumes (fs.base.FS as implemented  *)
(* by the backends): a filesystem is its files with their sizes, its       *)
(* directories, its dangling symbolic links (entries that are listed, with *)
(* no size, but cannot be opened), whether it exposes the system path of   *)
(* such an entry (hassyspath) and whether a missing parent directory       *)
(* surfaces as ResourceNotFoundError (OSFS, from ENOENT) instead of        *)
(* ParentDirectoryMissingError.                                            *)

Ok(fs) == [fs |-> fs, err |-> "ok"]
Raise(fs, e) == [fs |-> fs, err |-> e]

FilePaths(fs) == DOMAIN fs.files

exists(fs, p) == p = Root \/ p \in FilePaths(fs) \/ p \in fs.dirs
isdir(fs, p) == p = Root \/ p \in fs.dirs
isfile(fs, p) == p \in FilePaths(fs)

\* fs.makedir(path, recursive=True, allow_recreate=True)
makedir(fs, d) ==
    IF \E a \in Ancestors(d) : a \in FilePaths(fs) \/ a \in fs.broken
    THEN Raise(fs, "ResourceInvalidError")
    ELSE Ok([fs EXCEPT !.dirs = @ \cup Ancestors(d)])

\* fs.setcontents(path, data) with data of the given size
setcontents(fs, p, size) ==
    IF \E a \in Ancestors(dirname(p)) : a \in FilePaths(fs)
    THEN Raise(fs, "ResourceInvalidError")
    ELSE IF ~isdir(fs, dirname(p))
    THEN Raise(fs, IF fs.enoent THEN "ResourceNotFoundError"
                   ELSE "ParentDirectoryMissingError")
    ELSE IF p \in fs.dirs
    THEN Raise(fs, "ResourceInvalidError")
    ELSE Ok([fs EXCEPT !.files =
                [q \in DOMAIN fs.files \cup {p} |->
                    IF q = p THEN size ELSE fs.files[q]]])

\* fs.remove(path)
remove(fs, p) ==
    IF p \in FilePaths(fs)
    THEN Ok([fs EXCEPT !.files = [q \in DOMAIN fs.files \ {p} |-> fs.files[q]]])
    ELSE IF p \in fs.dirs THEN Raise(fs, "ResourceInvalidError")
    ELSE Raise(fs, "ResourceNotFoundError")

\* fs.utils.copyfile(source_fs, path, target_fs, path): the source is opened
\* first, then written to the target.
copyfile(sfs, p, tfs) ==
    IF p \in sfs.dirs THEN Raise(tfs, "ResourceInvalidError")
    ELSE IF p \notin FilePaths(sfs) THEN Raise(tfs, "ResourceNotFoundError")
    ELSE setcontents(tfs, p, sfs.files[p])

\* utils.copy_file with create_directory=True
copy_file(sfs, p, tfs) ==
    LET r == copyfile(sfs, p, tfs) IN
    IF r.err = "ParentDirectoryMissingError"
    THEN LET m == makedir(tfs, dirname(p)) IN
         IF m.err # "ok" THEN m ELSE copyfile(sfs, p, m.fs)
    ELSE r

-----------------------------------------------------------------------------
(* utils.walk_fs / utils.walk_files: a lazy, depth-first walk that sorts   *)
(* the entries of each directory when it first enters the directory.       *)

NoPath == <<>>
NoNode == [path |-> NoPath, isdir |-> FALSE, size |-> 0]

\* WalkNode(path, isdir, size) for one entry of a listing: a dangling link
\* is listed, is no directory and has no size.
WalkNode(fs, p) ==
    [path |-> p, isdir |-> isdir(fs, p),
     size |-> IF p \in FilePaths(fs) THEN fs.files[p] ELSE 0]

\* fs.ilistdirinfo(path, full=True)
ilistdirinfo(fs, d) ==
    {WalkNode(fs, p) : p \in {q \in FilePaths(fs) \cup fs.dirs \cup fs.broken :
                                 dirname(q) = d}}

\* nodes.sort(): the paths of one listing are distinct, so the order of the
\* tuples is the order of their paths.
RECURSIVE SortNodes(_)
SortNodes(S) ==
    IF S = {} THEN <<>>
    ELSE LET m == CHOOSE x \in S : \A y \in S : x = y \/ StrLess(x.path, y.path)
         IN  <<m>> \o SortNodes(S \ {m})

\* A walk_files generator: the directory it will list when resumed (NoPath
\* when none) and, innermost last, the unvisited nodes of each directory
\* it is inside of.
NewWalk == [enter |-> Root, stack |-> <<>>]

\* iter(list): a generator over an already materialized list of file nodes.
ListWalk(nodes) == [enter |-> NoPath, stack |-> <<nodes>>]

\* next(walk_files(fs), None): the next file node and the resumed generator.
RECURSIVE WalkNext(_, _)
WalkNext(fs, w) ==
    IF w.enter # NoPath
    THEN WalkNext(fs, [enter |-> NoPath,
                       stack |-> Append(w.stack,
                                        SortNodes(ilistdirinfo(fs, w.enter)))])
    ELSE IF w.stack = <<>>
    THEN [node |-> NoNode, walk |-> w]
    ELSE LET n == Len(w.stack)
             top == w.stack[n]
         IN  IF top = <<>>
             THEN WalkNext(fs, [w EXCEPT !.stack = SubSeq(w.stack, 1, n - 1)])
             ELSE LET node == Head(top)
                      rest == [w.stack EXCEPT ![n] = Tail(top)]
                  IN  IF node.isdir
                      THEN WalkNext(fs, [enter |-> node.path, stack |-> rest])
                      ELSE [node |-> node,
                            walk |-> [enter |-> NoPath, stack |-> rest]]

\* list(walk_files(fs)) on a filesystem nobody mutates meanwhile.
RECURSIVE WalkAll(_, _)
WalkAll(fs, w) ==
    LET r == WalkNext(fs, w) IN
    IF r.node = NoNode THEN <<>> ELSE <<r.node>> \o WalkAll(fs, r.walk)

walk_files(fs) == WalkAll(fs, NewWalk)

-----------------------------------------------------------------------------
(* sync._get_sync_actions: the two-pointer diff, a generator.              *)

NoAction == [func |-> "none", path |-> NoPath]
Act(f, p) == [func |-> f, path |-> p]

\* The generator before its first next(): resume says which statements
\* follow the yield it is suspended at ("s": sfile = next(source_files),
\* "t": tfile = next(target_files), "st": both, "start": lines 100-101).
NewGen(sw, tw) ==
    [resume |-> "start", sfile |-> NoNode, tfile |-> NoNode,
     sw |-> sw, tw |-> tw]

\* The statements between a yield and the next evaluation of the loop test.
Advance(g, sfs, tfs) ==
    LET s == WalkNext(sfs, g.sw)
        t == WalkNext(tfs, g.tw)
        doS == g.resume \in {"start", "s", "st"}
        doT == g.resume \in {"start", "t", "st"}
    IN  [g EXCEPT !.sfile = IF doS THEN s.node ELSE @,
                  !.sw = IF doS THEN s.walk ELSE @,
                  !.tfile = IF doT THEN t.node ELSE @,
                  !.tw = IF doT THEN t.walk ELSE @]

\* A diff whose two path comparisons are exchanged.
BranchExchanged(g) ==
    IF g.sfile = NoNode /\ g.tfile = NoNode
    THEN [action |-> NoAction, gen |-> [g EXCEPT !.resume = "done"]]
    ELSE IF g.sfile = NoNode
    THEN [action |-> Act("delete_file", g.tfile.path),
          gen |-> [g EXCEPT !.resume = "t"]]
    ELSE IF g.tfile = NoNode
    THEN [action |-> Act("upload_file", g.sfile.path),
          gen |-> [g EXCEPT !.resume = "s"]]
    ELSE IF g.sfile.path = g.tfile.path
    THEN [action |-> IF g.sfile.size = g.tfile.size
                     THEN Act("skip_file", g.sfile.path)
                     ELSE Act("upload_file", g.sfile.path),
          gen |-> [g EXCEPT !.resume = "st"]]
    ELSE IF StrLess(g.sfile.path, g.tfile.path)
    THEN [action |-> Act("delete_file", g.tfile.path),
          gen |-> [g EXCEPT !.resume = "t"]]
    ELSE [action |-> Act("upload_file", g.sfile.path),
          gen |-> [g EXCEPT !.resume = "s"]]

\* One pass of the while loop, up to its yield.
Branch(g) ==
    IF g.sfile = NoNode /\ g.tfile = NoNode
    THEN [action |-> NoAction, gen |-> [g EXCEPT !.resume = "done"]]
    ELSE IF g.sfile = NoNode
    THEN [action |-> Act("delete_file", g.tfile.path),
          gen |-> [g EXCEPT !.resume = "t"]]
    ELSE IF g.tfile = NoNode
    THEN [action |-> Act("upload_file", g.sfile.path),
          gen |-> [g EXCEPT !.resume = "s"]]
    ELSE IF g.sfile.path = g.tfile.path
    THEN [action |-> IF g.sfile.size = g.tfile.size
                     THEN Act("skip_file", g.sfile.path)
                     ELSE Act("upload_file", g.sfile.path),
          gen |-> [g EXCEPT !.resume = "st"]]
    ELSE IF StrLess(g.tfile.path, g.sfile.path)
    THEN [action |-> Act("delete_file", g.tfile.path),
          gen |-> [g EXCEPT !.resume = "t"]]
    ELSE [action |-> Act("upload_file", g.sfile.path),
          gen |-> [g EXCEPT !.resume = "s"]]

\* next(_get_sync_actions(...)): NoAction stands for StopIteration.
GenNext(g, sfs, tfs) ==
    IF g.resume = "done" THEN [action |-> NoAction, gen |-> g]
    ELSE Branch(Advance(g, sfs, tfs))

\* A stream that forgets the delete_missing filter.
ActionsNextUnfiltered(g, sfs, tfs, del) == GenNext(g, sfs, tfs)

\* next(actions) in sync_files: without delete_missing the delete actions
\* are filtered out of the stream.
RECURSIVE ActionsNext(_, _, _, _)
ActionsNext(g, sfs, tfs, del) ==
    LET r == GenNext(g, sfs, tfs) IN
    IF ~del /\ r.action.func = "delete_file"
    THEN ActionsNext(r.gen, sfs, tfs, del)
    ELSE r

-----------------------------------------------------------------------------
(* sync.upload_file, delete_file, skip_file.                               *)

\* Iteration x (from 0) of upload_file's retry loop, and the ones after it:
\* the target and the error the loop ends with, and, in tries, the outcome
\* of the copy_file call of each iteration made.  An iteration that fails
\* and leaves the target as it found it is repeated unchanged by every
\* later iteration, up to the bound: the loop then ends in its else clause.
RECURSIVE upload_attempt(_, _, _, _)
upload_attempt(sfs, tfs, p, x) ==
    IF x >= RetryBound
    THEN [fs |-> tfs, err |-> "Exception", tries |-> <<>>]
    ELSE LET r == copy_file(sfs, p, tfs)
             ends(res) == [fs |-> res.fs, err |-> res.err,
                           tries |-> <<r.err>>]
             again(fs) ==
                IF fs = tfs
                THEN [fs |-> fs, err |-> "Exception",
                      tries |-> [i \in 1..(RetryBound - x) |-> r.err]]
                ELSE LET rest == upload_attempt(sfs, fs, p, x + 1) IN
                     [rest EXCEPT !.tries = <<r.err>> \o @]
         IN
         IF r.err = "ok" THEN ends(r)
         ELSE IF r.err = "ParentDirectoryMissingError"
              \/ (r.err = "ResourceNotFoundError" /\ exists(sfs, p))
         THEN LET m == makedir(r.fs, dirname(p)) IN
              IF m.err # "ok" THEN ends(m) ELSE again(m.fs)
         ELSE IF r.err = "ResourceNotFoundError"
         THEN IF sfs.syspath /\ p \in sfs.broken
              THEN ends(Ok(r.fs))
              ELSE again(r.fs)
         ELSE ends(r)

\* An upload_file without the loop: one copy_file call, whose error is the
\* caller's.
upload_fileOnce(sfs, tfs, p) ==
    LET r == copy_file(sfs, p, tfs) IN
    [fs |-> r.fs, err |-> r.err, tries |-> <<r.err>>]

\* An upload_file that leaves the creation of the directory to copy_file.
upload_fileNoMakedir(sfs, tfs, p) ==
    LET r == copy_file(sfs, p, tfs) IN
    [fs |-> r.fs,
     err |-> IF r.err = "ResourceNotFoundError" /\ ~(sfs.syspath /\ p \in sfs.broken)
             THEN "Exception" ELSE r.err,
     tries |-> IF r.err = "ResourceNotFoundError"
               THEN [i \in 1..RetryBound |-> r.err] ELSE <<r.err>>]

\* An upload_file without the elif branch of lines 191-196: a dangling
\* link is retried like any other path that is not found.
upload_fileNoLinkCheck(sfs, tfs, p) ==
    IF p \in sfs.broken
    THEN [fs |-> tfs, err |-> "Exception",
          tries |-> [i \in 1..RetryBound |-> "ResourceNotFoundError"]]
    ELSE upload_attempt(sfs, tfs, p, 0)

upload_file(sfs, tfs, p) == upload_attempt(sfs, tfs, p, 0)

delete_file(tfs, p) == remove(tfs, p)

skip_file(tfs, p) == Ok(tfs)

\* The if/elif chain of sync_files and _process_files.
Perform(a, sfs, tfs) ==
    IF a.func = "upload_file" THEN upload_file(sfs, tfs, a.path)
    ELSE IF a.func = "delete_file" THEN delete_file(tfs, a.path)
    ELSE IF a.func = "skip_file" THEN skip_file(tfs, a.path)
    ELSE Raise(tfs, "ValueError")

-----------------------------------------------------------------------------
(* The inputs: directory trees over a small universe of paths.  The        *)
(* directory "/a" has the sibling "/a.b", whose name continues it with a   *)
(* character below '/'; "/a.a" may be a dangling symbolic link of the      *)
(* origin.                                                                 *)

CandidateFiles == {<<"/", "a", "/", "b">>,
                   <<"/", "a", ".", "b">>,
                   <<"/", "a", ".", "b", "/", "b">>}
CandidateDirs == {<<"/", "a">>, <<"/", "a", ".", "b">>}
CandidateLinks == {<<"/", "a", ".", "a">>}

Sizes == 1..MaxSize

\* A tree: every file lies in a directory of the tree, and no path is both
\* a file and a directory.
WellFormed(files, dirs) ==
    /\ DOMAIN files \cap dirs = {}
    /\ \A p \in DOMAIN files : Ancestors(dirname(p)) \subseteq dirs
    /\ \A d \in dirs : Ancestors(d) \subseteq dirs

TreeShapes ==
    {t \in [files : UNION {[F -> Sizes] : F \in SUBSET CandidateFiles},
            dirs : SUBSET CandidateDirs] : WellFormed(t.files, t.dirs)}

MkFS(t, broken, syspath, enoent) ==
    [files |-> t.files, dirs |-> t.dirs, broken |-> broken,
     syspath |-> syspath, enoent |-> enoent]

\* Origins: a tree, possibly with a dangling link; the value of hassyspath
\* is only ever read for a dangling link.
SourceTrees ==
    {MkFS(t, {}, TRUE, FALSE) : t \in TreeShapes}
    \cup {MkFS(t, L, sp, FALSE) :
            t \in TreeShapes, L \in (SUBSET CandidateLinks) \ {{}},
            sp \in BOOLEAN}

\* Targets: a tree on either kind of backend.
TargetTrees == {MkFS(t, {}, TRUE, en) : t \in TreeShapes, en \in BOOLEAN}

-----------------------------------------------------------------------------
(* sync_fs / sync_files, sequential mode.                                  *)

\* No HideFS has been built.
NoHideFS == _hide_wildcards = <<>> /\ hide_op = <<>>

\* No CacheFS and no MultiFS has been built.
NoWrappers ==
    /\ NoHideFS
    /\ wrapped_fs = <<>> /\ cachefs = <<>> /\ handles = <<>>
    /\ cache_op = <<>> /\ cache_hist = <<>>
    /\ fs_sequence = <<>> /\ writefs = <<>> /\ layers0 = <<>>
    /\ multi_op = <<>>
    /\ test_mode = <<>>
    /\ _cache = <<>> /\ instances = <<>> /\ threads = <<>> /\ lock = <<>>

NoList == <<>>

InitRun(sfs, tfs, del, procs) ==
    /\ NoWrappers
    /\ source_fs = sfs
    /\ target_fs = tfs
    /\ target0 = tfs
    /\ delete_missing = del
    /\ processes = procs
    /\ status = "running"
    /\ result = "none"
    /\ run = 1
    /\ emitted = <<>>
    /\ applied = <<>>
    /\ failed = <<>>
    /\ pending = NoAction
    /\ file_queue = <<>>
    /\ unfinished = 0
    /\ finished = FALSE
    /\ errored = FALSE
    /\ workers = [w \in 1..procs |-> [pc |-> "get", action |-> NoAction]]

\* sync_fs(source_fs, target_fs, delete_missing): both listings are lazy
\* walk_files generators.
Init ==
    \E sfs \in SourceTrees, tfs \in TargetTrees, del \in BOOLEAN :
        /\ InitRun(sfs, tfs, del, 0)
        /\ in_source = NoList
        /\ in_target = NoList
        /\ gen = NewGen(NewWalk, NewWalk)

\* The sequential loop is at next(actions); the first sync_fs has returned.
AtLoop == processes = 0 /\ status = "running"
AtReturned == processes = 0 /\ status = "returned" /\ run = 1

\* What next(actions) gives the loop of sync_files in the current state.
Upcoming == ActionsNext(gen, source_fs, target_fs, delete_missing)

\* sync.py 77-86: one iteration of the loop whose action completes.
SeqApply ==
    /\ AtLoop
    /\ LET n == Upcoming
           r == Perform(n.action, source_fs, target_fs)
       IN
        /\ n.action # NoAction
        /\ r.err = "ok"
        /\ target_fs' = r.fs
        /\ gen' = n.gen
        /\ emitted' = Append(emitted, n.action)
        /\ applied' = Append(applied, n.action)
    /\ UNCHANGED <<source_fs, target0, in_source, in_target, delete_missing,
                   processes, status, result, run, failed>>
    /\ UNCHANGED <<parVars, wrapVars>>

\* A loop that notes the failure and goes on with the next action.
SeqRaiseAndGoOn ==
    /\ AtLoop
    /\ LET n == Upcoming
           r == Perform(n.action, source_fs, target_fs)
       IN
        /\ n.action # NoAction
        /\ r.err # "ok"
        /\ target_fs' = r.fs
        /\ gen' = n.gen
        /\ emitted' = Append(emitted, n.action)
        /\ failed' = Append(failed, [action |-> n.action, err |-> r.err])
    /\ UNCHANGED <<source_fs, target0, in_source, in_target, delete_missing,
                   processes, status, result, run, applied>>
    /\ UNCHANGED <<parVars, wrapVars>>

\* sync.py 77-86: one iteration of the loop whose action raises; the
\* exception leaves sync_files.
SeqRaise ==
    /\ AtLoop
    /\ LET n == Upcoming
           r == Perform(n.action, source_fs, target_fs)
       IN
        /\ n.action # NoAction
        /\ r.err # "ok"
        /\ target_fs' = r.fs
        /\ gen' = n.gen
        /\ emitted' = Append(emitted, n.action)
        /\ failed' = Append(failed, [action |-> n.action, err |-> r.err])
    /\ status' = "raised"
    /\ UNCHANGED <<source_fs, target0, in_source, in_target, delete_missing,
                   processes, result, run, applied>>
    /\ UNCHANGED <<parVars, wrapVars>>

\* sync.py 88: the stream is exhausted, return True.
SeqReturn ==
    /\ AtLoop
    /\ LET n == Upcoming IN
        /\ n.action = NoAction
        /\ gen' = n.gen
    /\ status' = "returned"
    /\ result' = "True"
    /\ UNCHANGED <<source_fs, target_fs, target0, in_source, in_target,
                   delete_missing, processes, run, emitted, applied, failed>>
    /\ UNCHANGED <<parVars, wrapVars>>

\* A second sync_fs call with the same arguments, right after the first
\* one returned.
SyncAgain ==
    /\ AtReturned
    /\ run' = 2
    /\ gen' = NewGen(NewWalk, NewWalk)
    /\ status' = "running"
    /\ result' = "none"
    /\ emitted' = <<>>
    /\ applied' = <<>>
    /\ target0' = target_fs
    /\ UNCHANGED <<source_fs, target_fs, in_source, in_target,
                   delete_missing, processes, failed>>
    /\ UNCHANGED <<parVars, wrapVars>>

Next == SeqApply \/ SeqRaise \/ SeqReturn \/ SyncAgain

Spec == Init /\ [][Next]_vars

-----------------------------------------------------------------------------
(* sync_files, parallel mode: the producer (the orchestrator's for loop),  *)
(* the JoinableQueue and the _process_files workers.  A worker that finds  *)
(* the queue empty and finished unset goes round its loop without changing *)
(* anything, which is no step of the model.                                *)

\* Origins and targets of the parallel runs: trees without empty
\* directories, origin files of size 1, a target that reports a missing
\* parent as ParentDirectoryMissingError.
ParSources ==
    {t \in SourceTrees :
        /\ \A p \in DOMAIN t.files : t.files[p] = 1
        /\ \A d \in t.dirs : \E p \in DOMAIN t.files : d \in Ancestors(dirname(p))}
ParTargets ==
    {t \in TargetTrees :
        /\ ~t.enoent
        /\ \A d \in t.dirs : \E p \in DOMAIN t.files : d \in Ancestors(dirname(p))}

ParInit ==
    \E sfs \in ParSources, tfs \in ParTargets, del \in BOOLEAN,
       procs \in 1..MaxProcesses :
        /\ InitRun(sfs, tfs, del, procs)
        /\ in_source = NoList
        /\ in_target = NoList
        /\ gen = NewGen(NewWalk, NewWalk)

seqVars == <<source_fs, target0, in_source, in_target, delete_missing,
             processes, run>>

\* Where each party of a parallel run is able to go on.  The orchestrator:
\* at next(actions), at a put with room in the queue, at a join with no
\* unfinished task.  A worker: at a get with an action queued, at a get on
\* an empty queue with finished set, or performing an action.
AtNext == processes > 0 /\ status = "running" /\ pending = NoAction
AtPut ==
    /\ processes > 0 /\ status = "running" /\ pending # NoAction
    /\ Len(file_queue) < QueueMaxSize
AtJoined == processes > 0 /\ status = "joining" /\ unfinished = 0
CanGet(w) == workers[w].pc = "get" /\ file_queue # <<>>
CanExit(w) == workers[w].pc = "get" /\ file_queue = <<>> /\ finished
Performing(w) == workers[w].pc = "run"

\* sync.py 67: next(actions) yields an action.
ProducerNext ==
    /\ AtNext
    /\ LET n == Upcoming IN
        /\ n.action # NoAction
        /\ gen' = n.gen
        /\ pending' = n.action
        /\ emitted' = Append(emitted, n.action)
    /\ UNCHANGED <<target_fs, status, result, applied, failed, file_queue,
                   unfinished, finished, errored, workers>>
    /\ UNCHANGED <<seqVars, wrapVars>>

\* sync.py 67: next(actions) raises (a backend fails a listing of the walk);
\* the exception leaves sync_files, finished is never set.
ProducerRaise ==
    /\ AtNext
    /\ gen.resume # "done"
    /\ status' = "raised"
    /\ UNCHANGED <<target_fs, gen, result, emitted, applied, failed, pending,
                   file_queue, unfinished, finished, errored, workers>>
    /\ UNCHANGED <<seqVars, wrapVars>>

\* sync.py 68: file_queue.put(action), blocking while the queue is full.
ProducerPut ==
    /\ AtPut
    /\ file_queue' = Append(file_queue, pending)
    /\ unfinished' = unfinished + 1
    /\ pending' = NoAction
    /\ UNCHANGED <<target_fs, gen, status, result, emitted, applied, failed,
                   finished, errored, workers>>
    /\ UNCHANGED <<seqVars, wrapVars>>

\* sync.py 67, 70: the stream is exhausted, the orchestrator calls
\* file_queue.join().
ProducerJoin ==
    /\ AtNext
    /\ LET n == Upcoming IN
        /\ n.action = NoAction
        /\ gen' = n.gen
    /\ status' = "joining"
    /\ UNCHANGED <<target_fs, result, emitted, applied, failed, pending,
                   file_queue, unfinished, finished, errored, workers>>
    /\ UNCHANGED <<seqVars, wrapVars>>

\* sync.py 70-73: join() returns once every task put is done; finished is
\* set and the result is not errored.is_set().
JoinReturn ==
    /\ AtJoined
    /\ finished' = TRUE
    /\ status' = "returned"
    /\ result' = IF errored THEN "False" ELSE "True"
    /\ UNCHANGED <<target_fs, gen, emitted, applied, failed, pending,
                   file_queue, unfinished, errored, workers>>
    /\ UNCHANGED <<seqVars, wrapVars>>

\* A get that leaves the action in the queue.
WorkerGetPeek(w) ==
    /\ CanGet(w)
    /\ workers' = [workers EXCEPT ![w] = [pc |-> "run",
                                          action |-> Head(file_queue)]]
    /\ UNCHANGED <<target_fs, gen, status, result, emitted, applied, failed,
                   pending, file_queue, unfinished, finished, errored>>
    /\ UNCHANGED <<seqVars, wrapVars>>

\* sync.py 158: file_queue.get(timeout=1) returns an action.
WorkerGet(w) ==
    /\ CanGet(w)
    /\ workers' = [workers EXCEPT ![w] = [pc |-> "run",
                                          action |-> Head(file_queue)]]
    /\ file_queue' = Tail(file_queue)
    /\ UNCHANGED <<target_fs, gen, status, result, emitted, applied, failed,
                   pending, unfinished, finished, errored>>
    /\ UNCHANGED <<seqVars, wrapVars>>

\* A worker that leaves on the first Queue.Empty, finished or not.
WorkerExitEarly(w) ==
    /\ workers[w].pc = "get"
    /\ file_queue = <<>>
    /\ workers' = [workers EXCEPT ![w].pc = "exited"]
    /\ UNCHANGED <<target_fs, gen, status, result, emitted, applied, failed,
                   pending, file_queue, unfinished, finished, errored>>
    /\ UNCHANGED <<seqVars, wrapVars>>

\* sync.py 159-161: Queue.Empty with finished set, the worker leaves its
\* loop and the process exits.
WorkerExit(w) ==
    /\ CanExit(w)
    /\ workers' = [workers EXCEPT ![w].pc = "exited"]
    /\ UNCHANGED <<target_fs, gen, status, result, emitted, applied, failed,
                   pending, file_queue, unfinished, finished, errored>>
    /\ UNCHANGED <<seqVars, wrapVars>>

\* sync.py 163-171, 175: the action completes, then task_done().
WorkerDone(w) ==
    /\ Performing(w)
    /\ LET r == Perform(workers[w].action, source_fs, target_fs) IN
        /\ r.err = "ok"
        /\ target_fs' = r.fs
    /\ applied' = Append(applied, workers[w].action)
    /\ unfinished' = unfinished - 1
    /\ workers' = [workers EXCEPT ![w] = [pc |-> "get", action |-> NoAction]]
    /\ UNCHANGED <<gen, status, result, emitted, failed, pending, file_queue,
                   finished, errored>>
    /\ UNCHANGED <<seqVars, wrapVars>>

\* sync.py 172-174: the action raises; errored is set and the exception is
\* raised again, which ends the worker process before task_done().
WorkerFail(w) ==
    /\ Performing(w)
    /\ LET r == Perform(workers[w].action, source_fs, target_fs) IN
        /\ r.err # "ok"
        /\ target_fs' = r.fs
        /\ failed' = Append(failed, [action |-> workers[w].action,
                                     err |-> r.err])
    /\ errored' = TRUE
    /\ workers' = [workers EXCEPT ![w].pc = "died"]
    /\ UNCHANGED <<gen, status, result, emitted, applied, pending, file_queue,
                   unfinished, finished>>
    /\ UNCHANGED <<seqVars, wrapVars>>

ParNext ==
    \/ ProducerNext \/ ProducerRaise \/ ProducerPut \/ ProducerJoin
    \/ JoinReturn
    \/ \E w \in DOMAIN workers : WorkerGet(w)
    \/ \E w \in DOMAIN workers : WorkerExit(w)
    \/ \E w \in DOMAIN workers : WorkerDone(w)
    \/ \E w \in DOMAIN workers : WorkerFail(w)

ParSpec == ParInit /\ [][ParNext]_vars

-----------------------------------------------------------------------------
(* sync_files called with materialized, strictly path-sorted file lists.   *)

Range(s) == {s[i] : i \in 1..Len(s)}

ListPaths == {<<"/", "a", ".", "b">>, <<"/", "a", "/", "b">>, <<"/", "b">>}

\* Every strictly increasing list of file nodes over ListPaths.
FileLists ==
    {SortNodes({[path |-> p, isdir |-> FALSE, size |-> f[p]] : p \in DOMAIN f}) :
        f \in UNION {[F -> Sizes] : F \in SUBSET ListPaths}}

\* A filesystem that holds the files of the list, the directories they lie
\* in, and the further (empty) directories given.
FsOfList(list, moreDirs) ==
    [files |-> [p \in {n.path : n \in Range(list)} |->
                    (CHOOSE n \in Range(list) : n.path = p).size],
     dirs |-> UNION {Ancestors(dirname(n.path)) : n \in Range(list)}
              \cup moreDirs,
     broken |-> {}, syspath |-> TRUE, enoent |-> FALSE]

\* The target may hold an empty directory where the lists have no file.
DiffInit ==
    \E sl \in FileLists, tl \in FileLists, del \in BOOLEAN,
       more \in SUBSET {<<"/", "b">>} :
        /\ more \cap {n.path : n \in Range(tl)} = {}
        /\ InitRun(FsOfList(sl, {}), FsOfList(tl, more), del, 0)
        /\ in_source = sl
        /\ in_target = tl
        /\ gen = NewGen(ListWalk(sl), ListWalk(tl))

DiffNext == SeqApply \/ SeqRaise \/ SeqReturn

DiffSpec == DiffInit /\ [][DiffNext]_vars

\* Sequential and parallel runs of sync_fs together.
SyncInit == Init \/ ParInit

SyncNext == Next \/ ParNext

SyncSpec == SyncInit /\ [][SyncNext]_vars

\* The target is shared: while a run is under way, another party removes
\* one of the target's files.
OtherPartyRemoves ==
    /\ status \notin {"returned", "raised"}
    /\ \E p \in FilePaths(target_fs) : target_fs' = remove(target_fs, p).fs
    /\ UNCHANGED <<source_fs, target0, in_source, in_target, delete_missing,
                   processes, gen, status, result, run, emitted, applied,
                   failed>>
    /\ UNCHANGED <<parVars, wrapVars>>

\* The runs that delete: delete_missing=True, an origin without dangling
\* links.
SharedInit == SyncInit /\ delete_missing /\ source_fs.broken = {}

SharedNext == SyncNext \/ OtherPartyRemoves

\* Runs of sync_fs on a target that another party removes files from.
SharedSpec == SharedInit /\ [][SharedNext]_vars

-----------------------------------------------------------------------------
(* wrapfs/cachefs.py: CacheFS, a read-through cache of wrapped_fs whose     *)
(* entries are the files of the cache backend cachefs.  The content of a   *)
(* file is a sequence of data chunks.  Calls are issued one after another; *)
(* a write handle may stay open across other calls.                        *)

\* No sync run is under way.
NoSyncRun ==
    /\ source_fs = <<>> /\ target_fs = <<>> /\ target0 = <<>>
    /\ in_source = NoList /\ in_target = NoList
    /\ delete_missing = FALSE /\ processes = 0
    /\ gen = <<>> /\ status = "idle" /\ result = "none" /\ run = 0
    /\ emitted = <<>> /\ applied = <<>> /\ failed = <<>>
    /\ pending = NoAction /\ file_queue = <<>> /\ unfinished = 0
    /\ finished = FALSE /\ errored = FALSE /\ workers = <<>>

\* No thread is calling concurrently.
NoThreads ==
    /\ _cache = <<>> /\ instances = <<>> /\ threads = <<>> /\ lock = <<>>

\* test_mode = False: nothing is saved.  In test mode, old is what enabling
\* saved, at is the place of the test layer in fs_sequence, before is the
\* state as enabling found it and added tells whether a layer was added
\* since.
TestModeOff ==
    [on |-> FALSE, old |-> <<>>, at |-> 0, before |-> <<>>, added |-> FALSE]

\* tempfs.TempFS(): a fresh, empty directory of the local disk.
TempFS == MkFS([files |-> <<>>, dirs |-> {}], {}, TRUE, TRUE)

\* The chunks a write may carry.
Chunks == 1..MaxChunk

\* What a call returns when it returns no content.
NoContent == <<0>>

CacheDir == <<"/", "a">>
CacheFiles == {<<"/", "a", "/", "b">>}
CachePaths == CacheFiles \cup {CacheDir}

ReadModes == {"r", "rb"}
WriteModes == {"w", "a", "r+"}

\* The slots of the open CacheFile handles.
HandleIds == 1..MaxHandles
NoHandle == [path |-> NoPath, mode |-> "none", buf |-> <<>>, wrote |-> FALSE]

\* A _purge that leaves the entry where it is.
_purgeNothing(cfs, p) == Ok(cfs)

\* CacheFS._purge(path)
_purge(cfs, p) ==
    LET r == remove(cfs, p) IN
    IF r.err = "ResourceNotFoundError" THEN Ok(cfs) ELSE r

\* super(CacheFS, self).open(path, mode) for a write, append or update
\* mode: what opening does to the wrapped filesystem.
wrapped_open(wfs, p, mode) ==
    IF mode = "w" THEN setcontents(wfs, p, <<>>)
    ELSE IF p \in FilePaths(wfs) THEN Ok(wfs)
    ELSE IF mode = "a" THEN setcontents(wfs, p, <<>>)
    ELSE IF p \in wfs.dirs THEN Raise(wfs, "ResourceInvalidError")
    ELSE Raise(wfs, "ResourceNotFoundError")

\* The content of the file once the handle's buffered data is written.
Flushed(old, h) ==
    IF h.mode = "a" THEN old \o h.buf
    ELSE IF h.mode = "w" THEN h.buf
    ELSE h.buf \o SubSeq(old, Len(h.buf) + 1, Len(old))

\* The handle's buffered data reaches the wrapped filesystem.
flush(wfs, h) ==
    IF h.buf = <<>> \/ h.path \notin FilePaths(wfs) THEN wfs
    ELSE [wfs EXCEPT !.files[h.path] = Flushed(@, h)]

\* CacheFS.open(path, mode) for a read mode (cachefs.py 58-88): the cache
\* backend after the call, the error or "ok", the content of the returned
\* stream, and how often the wrapped filesystem was opened and the cache
\* backend was called.
ReadResult(cfs, e, c, hit, opens, calls) ==
    [cachefs |-> cfs, err |-> e, content |-> c, hit |-> hit,
     source_opens |-> opens, cache_calls |-> calls]

\* A read that never looks into the cache backend nor fills it.
open_readThrough(wfs, cfs, p, mode) ==
    IF p \notin FilePaths(wfs)
    THEN ReadResult(cfs, IF p \in wfs.dirs THEN "ResourceInvalidError"
                         ELSE "ResourceNotFoundError",
                    NoContent, FALSE, 1, 0)
    ELSE ReadResult(cfs, "ok", wfs.files[p], FALSE, 1, 0)

\* A read that opens the cache file for writing before it opens the
\* source: a path the source has not leaves an empty entry.
open_readCacheFirst(wfs, cfs, p, mode) ==
    IF p \in FilePaths(cfs) \/ p \in FilePaths(wfs)
    THEN open_readThrough(wfs, cfs, p, mode)
    ELSE ReadResult(setcontents(makedir(cfs, dirname(p)).fs, p, <<>>).fs,
                    "ResourceNotFoundError", NoContent, FALSE, 1, 3)

open_read(wfs, cfs, p, mode) ==
    IF p \in FilePaths(cfs)
    THEN ReadResult(cfs, "ok", cfs.files[p], TRUE, 0, 1)
    ELSE IF p \in cfs.dirs
    THEN ReadResult(cfs, "ResourceInvalidError", NoContent, FALSE, 0, 1)
    ELSE IF p \notin FilePaths(wfs)
    THEN ReadResult(cfs, IF p \in wfs.dirs THEN "ResourceInvalidError"
                         ELSE "ResourceNotFoundError",
                    NoContent, FALSE, 1, 1)
    ELSE LET data == wfs.files[p]
             first == setcontents(cfs, p, data)
             made == makedir(cfs, dirname(p))
             copied ==
                IF first.err # "ResourceNotFoundError" THEN first
                ELSE IF made.err # "ok" THEN made
                ELSE setcontents(made.fs, p, data)
             calls == IF first.err # "ResourceNotFoundError" THEN 2
                      ELSE IF made.err # "ok" THEN 3 ELSE 4
         IN
         IF copied.err # "ok"
         THEN ReadResult(copied.fs, copied.err, NoContent, FALSE, 1, calls)
         ELSE IF mode = "rb"
         THEN ReadResult(copied.fs, "ok", data, FALSE, 1, calls)
         ELSE ReadResult(copied.fs, "ok", copied.fs.files[p], FALSE, 1,
                         calls + 1)

\* What is remembered of a path: whether its cache entry was there before a
\* write to the path completed, and the last completed call on the path
\* ("read": a read that returned a stream, "write": a setcontents or a
\* close that returned).
NoHist == [stale |-> FALSE, last |-> "none"]

Cached(cfs, p) == p \in FilePaths(cfs)

\* The sources: a tree over CachePaths with one-chunk files.
CacheSources ==
    {MkFS([files |-> f, dirs |-> d], {}, TRUE, FALSE) :
        f \in UNION {[S -> {<<1>>}] : S \in SUBSET CacheFiles},
        d \in SUBSET {CacheDir}}

WellFormedSource(wfs) == WellFormed(wfs.files, wfs.dirs)

\* The cache backends: empty; a missing parent directory surfaces as
\* ResourceNotFoundError (an OSFS, a TempFS) or as
\* ParentDirectoryMissingError.
CacheBackends == {MkFS([files |-> <<>>, dirs |-> {}], {}, TRUE, en) :
                    en \in BOOLEAN}

\* CacheFS(fs, cachefs)
CacheInit ==
    /\ NoSyncRun /\ NoHideFS /\ NoThreads
    /\ fs_sequence = <<>> /\ writefs = <<>> /\ layers0 = <<>>
    /\ multi_op = <<>>
    /\ test_mode = TestModeOff
    /\ wrapped_fs \in {w \in CacheSources : WellFormedSource(w)}
    /\ cachefs \in CacheBackends
    /\ handles = [i \in HandleIds |-> NoHandle]
    /\ cache_op = [op |-> "init"]
    /\ cache_hist = [p \in CacheFiles |-> NoHist]

notCacheVars == <<syncVars, hideVars, multiVars, test_mode, threadVars>>

\* open(path, mode) in a read mode; the stream is read and closed.
CacheRead ==
    \E p \in CacheFiles, mode \in ReadModes :
        LET r == open_read(wrapped_fs, cachefs, p, mode) IN
        /\ cachefs' = r.cachefs
        /\ cache_op' = [op |-> "read", path |-> p,
                        err |-> r.err, content |-> r.content,
                        hit |-> r.hit, source_opens |-> r.source_opens,
                        was |-> [cached |-> Cached(cachefs, p),
                                 stale |-> cache_hist[p].stale,
                                 last |-> cache_hist[p].last]]
        /\ cache_hist' =
            [cache_hist EXCEPT ![p] =
                IF r.err = "ok"
                THEN [stale |-> IF r.hit THEN @.stale ELSE FALSE,
                      last |-> "read"]
                ELSE [stale |-> @.stale, last |-> "none"]]
        /\ UNCHANGED <<wrapped_fs, handles>>
        /\ UNCHANGED notCacheVars

\* open(path, mode) in a write, append or update mode (cachefs.py 45-56).
CacheOpenWrite ==
    \E p \in CacheFiles, mode \in WriteModes, i \in HandleIds :
        LET r == wrapped_open(wrapped_fs, p, mode) IN
        /\ handles[i] = NoHandle
        /\ \A j \in HandleIds : j < i => handles[j] # NoHandle
        /\ wrapped_fs' = r.fs
        /\ handles' = IF r.err = "ok"
                      THEN [handles EXCEPT ![i] =
                                [path |-> p, mode |-> mode, buf |-> <<>>,
                                 wrote |-> FALSE]]
                      ELSE handles
        /\ cache_op' = [op |-> "open", path |-> p, err |-> r.err]
        /\ UNCHANGED <<cachefs, cache_hist>>
        /\ UNCHANGED notCacheVars

\* CacheFile.write(data): the data stays in the handle's buffer or reaches
\* the wrapped filesystem at once.
CacheWrite ==
    \E i \in HandleIds, c \in Chunks, through \in BOOLEAN :
        LET h == [handles[i] EXCEPT !.buf = <<c>>, !.wrote = TRUE] IN
        /\ handles[i] # NoHandle
        /\ ~handles[i].wrote
        /\ handles[i].path \in FilePaths(wrapped_fs)
        /\ Len(Flushed(wrapped_fs.files[h.path], h)) <= MaxLen
        /\ wrapped_fs' = IF through THEN flush(wrapped_fs, h) ELSE wrapped_fs
        /\ handles' = [handles EXCEPT ![i] =
                            IF through THEN [h EXCEPT !.buf = <<>>] ELSE h]
        /\ cache_op' = [op |-> "write", path |-> h.path, err |-> "ok"]
        /\ UNCHANGED <<cachefs, cache_hist>>
        /\ UNCHANGED notCacheVars

\* CacheFile.close() (cachefs.py 104-108): the wrapped close, which may
\* raise and lose the buffered data, then on_close in the finally clause.
close(i, ok, purge(_, _)) ==
    LET h == handles[i]
        p == h.path
        pr == purge(cachefs, p)
        source_err == IF ok THEN "ok" ELSE "IOError"
    IN
    /\ h # NoHandle
    /\ wrapped_fs' = IF ok THEN flush(wrapped_fs, h) ELSE wrapped_fs
    /\ cachefs' = pr.fs
    /\ handles' = [handles EXCEPT ![i] = NoHandle]
    /\ cache_op' = [op |-> "close", path |-> p,
                    err |-> IF pr.err # "ok" THEN pr.err ELSE source_err,
                    source_err |-> source_err,
                    was |-> [cached |-> Cached(cachefs, p)]]
    /\ cache_hist' =
        [cache_hist EXCEPT ![p] =
            IF ok THEN [stale |-> Cached(pr.fs, p), last |-> "write"]
            ELSE [stale |-> @.stale /\ Cached(pr.fs, p), last |-> "none"]]
    /\ UNCHANGED notCacheVars

\* A close that forgets on_close.
CacheCloseNoPurge ==
    \E i \in HandleIds, ok \in BOOLEAN : close(i, ok, _purgeNothing)

CacheClose ==
    \E i \in HandleIds, ok \in BOOLEAN : close(i, ok, _purge)

\* CacheFS.setcontents(path, data) (cachefs.py 90-95): the write to the
\* wrapped filesystem, which may fail in the backend with or without the
\* data written, then _purge in the finally clause.
cache_setcontents(p, c, outcome, purge(_, _)) ==
    LET w == setcontents(wrapped_fs, p, <<c>>)
        source_err == IF w.err # "ok" THEN w.err
                      ELSE IF outcome = "ok" THEN "ok"
                      ELSE "OperationFailedError"
        pr == purge(cachefs, p)
    IN
    /\ wrapped_fs' = IF outcome = "lost" THEN wrapped_fs ELSE w.fs
    /\ cachefs' = pr.fs
    /\ cache_op' = [op |-> "setcontents", path |-> p,
                    err |-> IF pr.err # "ok" THEN pr.err ELSE source_err,
                    source_err |-> source_err,
                    was |-> [cached |-> Cached(cachefs, p)]]
    /\ cache_hist' =
        [q \in CacheFiles |->
            IF q # p THEN cache_hist[q]
            ELSE IF source_err = "ok"
            THEN [stale |-> Cached(pr.fs, p), last |-> "write"]
            ELSE [stale |-> (cache_hist[q].stale \/ outcome = "written")
                                /\ Cached(pr.fs, p),
                  last |-> "none"]]
    /\ UNCHANGED handles
    /\ UNCHANGED notCacheVars

\* A setcontents that purges only after a write that succeeded.
CacheSetContentsPurgeOnSuccess ==
    \E p \in CachePaths, c \in Chunks, outcome \in {"ok", "lost", "written"} :
        IF outcome = "ok" /\ setcontents(wrapped_fs, p, <<c>>).err = "ok"
        THEN cache_setcontents(p, c, outcome, _purge)
        ELSE cache_setcontents(p, c, outcome, _purgeNothing)

CacheSetContents ==
    \E p \in CachePaths, c \in Chunks, outcome \in {"ok", "lost", "written"} :
        cache_setcontents(p, c, outcome, _purge)

CacheNext == CacheRead \/ CacheOpenWrite \/ CacheWrite \/ CacheClose
             \/ CacheSetContents

CacheSpec == CacheInit /\ [][CacheNext]_vars

-----------------------------------------------------------------------------
(* CacheFS.enable_test_mode / disable_test_mode: old is _cachefs, before   *)
(* is the cache backend as the first enable_test_mode found it.            *)

\* An enable_test_mode without "if not self.test_mode".
CacheEnableTestModeUnguarded ==
    /\ cachefs' = TempFS
    /\ test_mode' = [on |-> TRUE, old |-> cachefs, at |-> 0,
                     before |-> IF test_mode.on THEN test_mode.before
                                ELSE cachefs,
                     added |-> FALSE]
    /\ cache_op' = [op |-> "enable_test_mode", path |-> NoPath,
                    err |-> "ok", switched |-> TRUE, left |-> cachefs]
    /\ UNCHANGED <<wrapped_fs, handles, cache_hist>>
    /\ UNCHANGED <<syncVars, hideVars, multiVars, threadVars>>

\* enable_test_mode()
CacheEnableTestMode ==
    /\ IF test_mode.on
       THEN UNCHANGED <<cachefs, test_mode>>
       ELSE /\ cachefs' = TempFS
            /\ test_mode' = [on |-> TRUE, old |-> cachefs, at |-> 0,
                             before |-> cachefs, added |-> FALSE]
    /\ cache_op' = [op |-> "enable_test_mode", path |-> NoPath,
                    err |-> "ok", switched |-> ~test_mode.on,
                    left |-> cachefs]
    /\ UNCHANGED <<wrapped_fs, handles, cache_hist>>
    /\ UNCHANGED <<syncVars, hideVars, multiVars, threadVars>>

\* disable_test_mode()
CacheDisableTestMode ==
    /\ IF test_mode.on
       THEN /\ cachefs' = test_mode.old
            /\ test_mode' = TestModeOff
       ELSE UNCHANGED <<cachefs, test_mode>>
    /\ cache_op' = [op |-> "disable_test_mode", path |-> NoPath,
                    err |-> "ok", switched |-> test_mode.on,
                    left |-> cachefs]
    /\ UNCHANGED <<wrapped_fs, handles, cache_hist>>
    /\ UNCHANGED <<syncVars, hideVars, multiVars, threadVars>>

\* Reads and writes through a CacheFS whose test mode is switched.
CacheTestNext ==
    \/ CacheEnableTestMode \/ CacheDisableTestMode
    \/ CacheRead \/ CacheSetContents

CacheTestSpec == CacheInit /\ [][CacheTestNext]_vars

-----------------------------------------------------------------------------
(* multifs.py / layeredfs.py: MultiFS, a union of layers.  fs_sequence     *)
(* holds the layers in the order "for fs in self" visits them; writefs is  *)
(* the attribute of that name: whether the object has it and the position *)
(* of the layer it refers to (0 for None).  The content of a file of      *)
(* layer i is <<i>> until it is written through the MultiFS, which writes  *)
(* empty files.                                                            *)

LayerNames == <<"layer1", "layer2">>
Positions == 1..Len(LayerNames)

\* The paths the calls are made on.
MultiDir == <<"/", "a">>
MultiPaths == {<<"/", "a", "/", "b">>, MultiDir}

\* The trees a layer may hold: "/a" is a directory, a file or absent, and
\* "/b" is a file or absent.
MultiTrees(i) ==
    {MkFS([files |-> f, dirs |-> d], {}, TRUE, FALSE) :
        f \in UNION {[S -> {<<i>>}] :
                        S \in SUBSET (MultiPaths \cup {<<"/", "b">>})},
        d \in SUBSET {MultiDir}}

\* multi_op for a call that has not done anything yet.
MultiOp(op, p) ==
    [op |-> op, path |-> p, err |-> "ok", answer |-> NoContent,
     consulted |-> {}, attempts |-> 0, made |-> FALSE,
     first_err |-> "none", parent_missing |-> FALSE, scanned |-> <<>>]

\* The test a read operation applies to each layer.
Positive(op, fs, p) ==
    IF op = "isdir" THEN isdir(fs, p)
    ELSE IF op = "isfile" THEN isfile(fs, p)
    ELSE exists(fs, p)

\* A search that goes through every layer and keeps the last positive one.
RECURSIVE SearchLast(_, _, _, _)
SearchLast(layers, op, p, i) ==
    IF i > Len(layers) THEN 0
    ELSE LET later == SearchLast(layers, op, p, i + 1) IN
         IF later # 0 THEN later
         ELSE IF Positive(op, layers[i], p) THEN i ELSE 0

\* for fs in self: if fs.<test>(path): ... ; the position of the layer
\* that answers, 0 when the loop runs out.
RECURSIVE Search(_, _, _, _)
Search(layers, op, p, i) ==
    IF i > Len(layers) THEN 0
    ELSE IF Positive(op, layers[i], p) THEN i
    ELSE Search(layers, op, p, i + 1)

\* exists, isdir, isfile, getinfo and open in a read mode.  An open that
\* finds the path nowhere raises ResourceNotFoundError inside
\* _autocreate_missing_writefs_directory, whose handler reads fs.writefs.
Lookup(layers, wfs, op, p) ==
    LET i == Search(layers, op, p, 1)
        base == [MultiOp(op, p) EXCEPT
                    !.consulted = IF i = 0 THEN DOMAIN layers ELSE 1..i]
    IN
    IF op \in {"exists", "isdir", "isfile"}
    THEN [base EXCEPT !.answer = (i # 0)]
    ELSE IF i = 0
    THEN [base EXCEPT !.err = IF op = "open" /\ ~wfs.attr
                              THEN "AttributeError"
                              ELSE "ResourceNotFoundError"]
    ELSE IF op = "getinfo"
    THEN [base EXCEPT !.answer = WalkNode(layers[i], p)]
    ELSE IF isfile(layers[i], p)
    THEN [base EXCEPT !.answer = layers[i].files[p]]
    ELSE [base EXCEPT !.err = "ResourceInvalidError"]

\* make_layered_fs(write_fs_string, read_fs_string): the layers are added
\* in reverse, the layer added last is visited first.
make_layered_fs(write_fs, read_fs) ==
    [fs_sequence |-> <<write_fs, read_fs>>,
     writefs |-> [attr |-> TRUE, fs |-> 1]]

\* MultiFS() followed by addfs for each layer: writefs is assigned only by
\* an addfs(..., write=True); __init__ assigns write_fs.
MultiInit ==
    /\ NoSyncRun /\ NoHideFS /\ NoThreads
    /\ test_mode = TestModeOff
    /\ wrapped_fs = <<>> /\ cachefs = <<>> /\ handles = <<>>
    /\ cache_op = <<>> /\ cache_hist = <<>>
    /\ \E l1 \in MultiTrees(1), l2 \in MultiTrees(2), en \in BOOLEAN :
        /\ WellFormedSource(l1) /\ WellFormedSource(l2)
        /\ \/ /\ fs_sequence = make_layered_fs([l1 EXCEPT !.enoent = en],
                                               l2).fs_sequence
              /\ writefs = make_layered_fs(l1, l2).writefs
           \/ /\ fs_sequence = <<l1, [l2 EXCEPT !.enoent = en]>>
              /\ writefs = [attr |-> TRUE, fs |-> 2]
           \/ /\ ~en
              /\ fs_sequence = <<l1, l2>>
              /\ writefs = [attr |-> FALSE, fs |-> 0]
    /\ layers0 = fs_sequence
    /\ multi_op = MultiOp("init", NoPath)

notMultiVars == <<syncVars, hideVars, cacheVars, test_mode, threadVars>>

\* The call returns or raises and leaves every layer as it is.
Answered(op) ==
    /\ multi_op' = op
    /\ UNCHANGED <<fs_sequence, writefs, layers0>>
    /\ UNCHANGED notMultiVars

\* exists(path)
MultiExists ==
    \E p \in MultiPaths : Answered(Lookup(fs_sequence, writefs, "exists", p))

\* getinfo(path)
MultiGetInfo ==
    \E p \in MultiPaths : Answered(Lookup(fs_sequence, writefs, "getinfo", p))

\* isdir(path)
MultiIsDir ==
    \E p \in MultiPaths : Answered(Lookup(fs_sequence, writefs, "isdir", p))

\* isfile(path)
MultiIsFile ==
    \E p \in MultiPaths : Answered(Lookup(fs_sequence, writefs, "isfile", p))

\* open(path, 'r'); the stream is read and closed.
MultiOpenRead ==
    \E p \in MultiPaths : Answered(Lookup(fs_sequence, writefs, "open", p))

\* What reading self.writefs for a mutating operation gives when no layer
\* can be written: "ok" when there is one.
NoWriteFS(wfs) ==
    IF ~wfs.attr THEN "AttributeError"
    ELSE IF wfs.fs = 0 THEN "OperationFailedError"
    ELSE "ok"

\* The outcome of a call is recorded and its layer put in place.
Written(i, r, op) ==
    /\ i \in DOMAIN fs_sequence
    /\ fs_sequence' = [fs_sequence EXCEPT ![i] = r.fs]
    /\ multi_op' = op
    /\ UNCHANGED <<writefs, layers0>>
    /\ UNCHANGED notMultiVars

\* The call fails before it reaches any layer.
Refused(op, e) == Answered([op EXCEPT !.err = e])

\* with _autocreate_missing_writefs_directory(fs, path, mode): attempt,
\* and on CreatedDirectory the attempt once more (multifs.py 118-122,
\* 140-144, 162-175); attempt(fs) is the operation on the write layer.
autocreate(w, p, op, attempt(_)) ==
    LET first == attempt(w)
        made == makedir(w, dirname(p))
        again == attempt(made.fs)
        rec == [op EXCEPT !.first_err = first.err,
                          !.parent_missing = ~exists(w, dirname(p))]
    IN
    IF first.err # "ResourceNotFoundError" \/ exists(w, dirname(p))
    THEN [fs |-> first.fs,
          op |-> [rec EXCEPT !.err = first.err, !.attempts = 1]]
    ELSE IF made.err # "ok"
    THEN [fs |-> made.fs,
          op |-> [rec EXCEPT !.err = made.err, !.attempts = 1]]
    ELSE [fs |-> again.fs,
          op |-> [rec EXCEPT !.err = again.err, !.attempts = 2,
                             !.made = TRUE]]

\* open(path, mode) in a write, append or update mode; the stream is
\* closed with nothing written.
MultiOpenWrite ==
    \E p \in MultiPaths, mode \in WriteModes :
        LET op == MultiOp("open_write", p)
            attempt(w) == wrapped_open(w, p, mode)
        IN
        IF NoWriteFS(writefs) # "ok" THEN Refused(op, NoWriteFS(writefs))
        ELSE LET r == autocreate(fs_sequence[writefs.fs], p, op, attempt)
             IN  Written(writefs.fs, r, r.op)

\* setcontents(path, data) with empty data.
MultiSetContents ==
    \E p \in MultiPaths :
        LET op == MultiOp("setcontents", p)
            attempt(w) == setcontents(w, p, <<>>)
        IN
        IF NoWriteFS(writefs) # "ok" THEN Refused(op, NoWriteFS(writefs))
        ELSE LET r == autocreate(fs_sequence[writefs.fs], p, op, attempt)
             IN  Written(writefs.fs, r, r.op)

\* makedir(path, recursive=True, allow_recreate=True)
MultiMakedir ==
    LET op == MultiOp("makedir", MultiDir) IN
    IF NoWriteFS(writefs) # "ok" THEN Refused(op, NoWriteFS(writefs))
    ELSE LET r == makedir(fs_sequence[writefs.fs], MultiDir) IN
         Written(writefs.fs, r, [op EXCEPT !.err = r.err, !.attempts = 1])

\* A remove that goes to the first layer that has the path.
MultiRemoveWhereFound ==
    \E p \in MultiPaths :
        LET op == MultiOp("remove", p)
            i == Search(fs_sequence, "exists", p, 1)
        IN
        IF i = 0 THEN Refused(op, "ResourceNotFoundError")
        ELSE LET r == remove(fs_sequence[i], p) IN
             Written(i, r, [op EXCEPT !.err = r.err, !.attempts = 1])

\* remove(path)
MultiRemove ==
    \E p \in MultiPaths :
        LET op == MultiOp("remove", p) IN
        IF NoWriteFS(writefs) # "ok" THEN Refused(op, NoWriteFS(writefs))
        ELSE LET r == remove(fs_sequence[writefs.fs], p) IN
             Written(writefs.fs, r,
                     [op EXCEPT !.err = r.err, !.attempts = 1])

\* The orders in which a layer may list the entries S of a directory.
Orders(S) ==
    {s \in [1..Cardinality(S) -> S] :
        \A i, j \in DOMAIN s : s[i] = s[j] => i = j}

\* The listings of the layers one after the other, in the order the
\* layers are visited.
RECURSIVE Scanned(_, _)
Scanned(lists, i) ==
    IF i > Len(lists) THEN <<>> ELSE lists[i] \o Scanned(lists, i + 1)

\* A listing that yields every path of every layer.
YieldedAll(s) == s

\* if fs_path not in seen_paths: yield fs_path; seen_paths.add(fs_path)
RECURSIVE Yielded(_)
Yielded(s) ==
    IF s = <<>> THEN <<>>
    ELSE LET before == Yielded(SubSeq(s, 1, Len(s) - 1)) IN
         IF s[Len(s)] \in Range(before) THEN before
         ELSE Append(before, s[Len(s)])

\* ilistdir(path, full=True), consumed to its end; a layer whose ilistdir
\* raises FSError, the path being no directory of it, adds nothing.
MultiIListDir ==
    \E d \in {Root, MultiDir} :
    \E lists \in [Positions ->
                    UNION {Orders({n.path : n \in ilistdirinfo(fs_sequence[i], d)})
                              : i \in Positions}] :
        /\ \A i \in Positions :
              lists[i] \in Orders(IF isdir(fs_sequence[i], d)
                                  THEN {n.path : n \in
                                            ilistdirinfo(fs_sequence[i], d)}
                                  ELSE {})
        /\ Answered([MultiOp("ilistdir", d) EXCEPT
                        !.answer = Yielded(Scanned(lists, 1)),
                        !.scanned = lists,
                        !.consulted = Positions])

\* fs.multifs.MultiFS.clearwritefs(): writefs becomes None, the value the
\* guards of makedir, remove and setcontents test for.
clearwritefs ==
    /\ writefs.attr /\ writefs.fs # 0
    /\ writefs' = [attr |-> TRUE, fs |-> 0]
    /\ multi_op' = MultiOp("clearwritefs", NoPath)
    /\ UNCHANGED <<fs_sequence, layers0>>
    /\ UNCHANGED notMultiVars

MultiNext ==
    \/ MultiExists \/ MultiGetInfo \/ MultiIsDir \/ MultiIsFile
    \/ MultiOpenRead
    \/ MultiOpenWrite \/ MultiSetContents \/ MultiMakedir \/ MultiRemove
    \/ MultiIListDir
    \/ clearwritefs

MultiSpec == MultiInit /\ [][MultiNext]_vars

-----------------------------------------------------------------------------
(* MultiFS.enable_test_mode / disable_test_mode, and the library's addfs.  *)
(* A reference to a layer is its place in fs_sequence, so every reference  *)
(* held (writefs, _test_mode_old_writefs, the test layer's own place)      *)
(* moves by one when a layer is put in front or taken out before it.       *)

\* The reference w once a layer has been put in front of fs_sequence.
Pushed(w) == IF w.attr /\ w.fs # 0 THEN [w EXCEPT !.fs = @ + 1] ELSE w

\* The layers addfs is called with: an empty one and one that holds "/a/b".
AddedTrees ==
    {l \in MultiTrees(Len(LayerNames) + 1) :
        /\ WellFormedSource(l)
        /\ FilePaths(l) \in {{}, {<<"/", "a", "/", "b">>}}
        /\ (FilePaths(l) = {}) = (l.dirs = {})}

\* addfs(name, fs, write): the layer added last is searched first.
MultiAddFs ==
    \E l \in AddedTrees, write \in BOOLEAN :
        /\ Len(fs_sequence) < MaxLayers
        /\ fs_sequence' = <<l>> \o fs_sequence
        /\ writefs' = IF write THEN [attr |-> TRUE, fs |-> 1]
                      ELSE Pushed(writefs)
        /\ test_mode' = IF test_mode.on
                        THEN [test_mode EXCEPT !.old = Pushed(@),
                                               !.at = @ + 1,
                                               !.added = TRUE]
                        ELSE test_mode
        /\ multi_op' = MultiOp("addfs", NoPath)
        /\ UNCHANGED layers0
        /\ UNCHANGED <<syncVars, hideVars, cacheVars, threadVars>>

\* enable_test_mode(): reading self.writefs (line 47) raises AttributeError
\* on a MultiFS that never got a write layer.
MultiEnableTestMode ==
    /\ Len(fs_sequence) < MaxLayers
    /\ IF test_mode.on
       THEN /\ multi_op' = MultiOp("enable_test_mode", NoPath)
            /\ UNCHANGED <<fs_sequence, writefs, test_mode>>
       ELSE IF ~writefs.attr
       THEN /\ multi_op' = [MultiOp("enable_test_mode", NoPath) EXCEPT
                                !.err = "AttributeError"]
            /\ UNCHANGED <<fs_sequence, writefs, test_mode>>
       ELSE /\ fs_sequence' = <<TempFS>> \o fs_sequence
            /\ writefs' = [attr |-> TRUE, fs |-> 1]
            /\ test_mode' = [on |-> TRUE, old |-> Pushed(writefs), at |-> 1,
                             before |-> <<fs_sequence, writefs>>,
                             added |-> FALSE]
            /\ multi_op' = MultiOp("enable_test_mode", NoPath)
    /\ UNCHANGED layers0
    /\ UNCHANGED <<syncVars, hideVars, cacheVars, threadVars>>

\* disable_test_mode(): removefs('test_mode_fs') when removes, and
\* setwritefs(self._test_mode_old_writefs) when restores; without the
\* latter writefs keeps referring to the layer taken out, a place past the
\* end of fs_sequence.
disable_test_mode(removes, restores) ==
    /\ IF ~test_mode.on
       THEN UNCHANGED <<fs_sequence, writefs, test_mode>>
       ELSE LET at == test_mode.at
                old == test_mode.old
            IN
            /\ fs_sequence' =
                IF removes
                THEN SubSeq(fs_sequence, 1, at - 1)
                        \o SubSeq(fs_sequence, at + 1, Len(fs_sequence))
                ELSE fs_sequence
            /\ writefs' =
                IF ~restores
                THEN [attr |-> TRUE, fs |-> Len(fs_sequence)]
                ELSE IF removes /\ old.fs > at
                THEN [old EXCEPT !.fs = @ - 1]
                ELSE old
            /\ test_mode' = TestModeOff
    /\ multi_op' = [MultiOp("disable_test_mode", NoPath) EXCEPT
                        !.answer = test_mode.on,
                        !.scanned = IF test_mode.on
                                    THEN <<fs_sequence[test_mode.at]>>
                                    ELSE <<>>]
    /\ UNCHANGED layers0
    /\ UNCHANGED <<syncVars, hideVars, cacheVars, threadVars>>

\* A disable_test_mode that leaves the test layer in fs_sequence.
MultiDisableTestModeKeepsLayer ==
    \E removes \in {FALSE} : disable_test_mode(removes, TRUE)

\* A disable_test_mode that does not set writefs back.
MultiDisableTestModeKeepsWritefs ==
    \E restores \in {FALSE} : disable_test_mode(TRUE, restores)

MultiDisableTestMode ==
    \E removes \in {TRUE} : disable_test_mode(removes, TRUE)

\* A MultiFS built by make_layered_fs or by hand over layers that hold at
\* most "/a/b", then layers added, test mode switched and files written.
TestModeInit ==
    /\ MultiInit
    /\ \A i \in DOMAIN fs_sequence :
          /\ fs_sequence[i] \in
                {[l EXCEPT !.enoent = en] : l \in MultiTrees(i),
                                            en \in BOOLEAN}
          /\ FilePaths(fs_sequence[i]) \subseteq {<<"/", "a", "/", "b">>}
          /\ (FilePaths(fs_sequence[i]) = {}) = (fs_sequence[i].dirs = {})

TestModeNext ==
    \/ MultiAddFs \/ MultiEnableTestMode \/ MultiDisableTestMode
    \/ MultiExists \/ MultiOpenRead
    \/ MultiSetContents \/ MultiRemove

TestModeSpec == TestModeInit /\ [][TestModeNext]_vars

-----------------------------------------------------------------------------
(* django_storage.FSStorage over make_layered_fs(write, read), as in       *)
(* tests.py 287-352, possibly wrapped by cachefs.enable_caching: then      *)
(* wrapped_fs names what the CacheFS wraps and cachefs is its cache        *)
(* backend.  cache_op is the last call on the storage and cache_hist the   *)
(* two calls before it.                                                    *)

StoragePath == <<"/", "a", "/", "b">>

\* fs.errors.convert_fs_errors: every FSError leaves as an OSError; what
\* is no FSError passes.
convert_fs_errors(e) ==
    IF e \in {"ok", "AttributeError"} THEN e ELSE "OSError"

\* What an open in a read mode finds in the layers: the entry of the
\* first layer in which the path exists.
View(layers) ==
    LET all == UNION {FilePaths(layers[i]) \cup layers[i].dirs :
                        i \in DOMAIN layers}
        at(p) == Search(layers, "exists", p, 1)
    IN  MkFS([files |-> [p \in {q \in all : isfile(layers[at(q)], q)} |->
                            layers[at(p)].files[p]],
              dirs |-> {q \in all : isdir(layers[at(q)], q)}],
             {}, FALSE, FALSE)

Caching == wrapped_fs = <<"MultiFS">>

\* A call on the storage: found tells whether some layer held the path
\* when the call was made.
StorageCall(op, mode, data) ==
    [op |-> op, path |-> StoragePath, mode |-> mode, data |-> data,
     err |-> "ok", answer |-> NoContent,
     found |-> Search(fs_sequence, "exists", StoragePath, 1) # 0,
     after |-> cache_hist]

\* FSStorage(fs, base_url) with fs = make_layered_fs(write, read) or
\* enable_caching(make_layered_fs(write, read), cachefs).
StorageInit ==
    /\ NoSyncRun /\ NoHideFS /\ NoThreads
    /\ test_mode = TestModeOff /\ handles = <<>>
    /\ \E l1 \in MultiTrees(1), l2 \in MultiTrees(2), en \in BOOLEAN :
        /\ WellFormedSource(l1) /\ WellFormedSource(l2)
        /\ <<"/", "b">> \notin FilePaths(l1) \cup FilePaths(l2)
        /\ fs_sequence = make_layered_fs([l1 EXCEPT !.enoent = en],
                                         l2).fs_sequence
        /\ writefs = make_layered_fs(l1, l2).writefs
    /\ layers0 = fs_sequence
    /\ multi_op = MultiOp("init", NoPath)
    /\ \/ wrapped_fs = <<>> /\ cachefs = <<>>
       \/ /\ wrapped_fs = <<"MultiFS">>
          /\ cachefs \in {[l EXCEPT !.enoent = en] :
                            l \in AddedTrees, en \in BOOLEAN}
    /\ cache_hist = <<>>
    /\ cache_op = [StorageCall("init", "none", <<>>) EXCEPT !.found = FALSE]

\* The call returns or raises: the layers and the cache backend are as the
\* call leaves them.
Called(call, layers, cfs) ==
    /\ fs_sequence' = layers
    /\ cachefs' = cfs
    /\ cache_op' = call
    /\ cache_hist' =
        LET h == Append(cache_hist, [op |-> call.op, mode |-> call.mode,
                                     data |-> call.data, err |-> call.err])
        IN  IF Len(h) > 2 THEN Tail(h) ELSE h
    /\ UNCHANGED <<wrapped_fs, handles, writefs, layers0, multi_op,
                   test_mode>>
    /\ UNCHANGED <<syncVars, hideVars, threadVars>>

\* A delete without the except clause.
StorageDeleteRaises ==
    LET call == StorageCall("delete", "none", <<>>)
        r == remove(fs_sequence[writefs.fs], StoragePath)
    IN  Called([call EXCEPT !.err = convert_fs_errors(r.err)],
               [fs_sequence EXCEPT ![writefs.fs] = r.fs], cachefs)

\* storage.delete(name): self.fs.remove(name), which MultiFS sends to the
\* write layer and CacheFS passes on to what it wraps.
StorageDelete ==
    LET call == StorageCall("delete", "none", <<>>)
        r == remove(fs_sequence[writefs.fs], StoragePath)
    IN  Called([call EXCEPT !.err = IF r.err = "ResourceNotFoundError"
                                    THEN "ok"
                                    ELSE convert_fs_errors(r.err)],
               [fs_sequence EXCEPT ![writefs.fs] = r.fs], cachefs)

\* storage.exists(name)
StorageExists ==
    LET call == StorageCall("exists", "none", <<>>) IN
    Called([call EXCEPT
                !.answer = Lookup(fs_sequence, writefs, "exists",
                                  StoragePath).answer],
           fs_sequence, cachefs)

\* f = storage.open(name, mode) with mode 'w' or 'a'; f.write(data);
\* f.close().  The close of a CacheFile purges the cache entry.
StorageWrite ==
    \E mode \in {"w", "a"}, c \in Chunks :
        LET call == StorageCall("write", mode, <<c>>)
            attempt(w) == wrapped_open(w, StoragePath, mode)
            r == autocreate(fs_sequence[writefs.fs], StoragePath,
                            MultiOp("open_write", StoragePath), attempt)
            opened == r.op.err = "ok"
            data == Flushed(r.fs.files[StoragePath],
                            [mode |-> mode, buf |-> <<c>>])
            purged == IF Caching /\ opened THEN _purge(cachefs, StoragePath)
                      ELSE Ok(cachefs)
        IN
        /\ opened => Len(data) <= MaxLen
        /\ Called([call EXCEPT
                    !.err = convert_fs_errors(IF opened THEN purged.err
                                              ELSE r.op.err)],
                  [fs_sequence EXCEPT ![writefs.fs] =
                      IF opened
                      THEN [r.fs EXCEPT !.files[StoragePath] = data]
                      ELSE r.fs],
                  purged.fs)

\* f = storage.open(name, 'r'); f.read(); f.close()
StorageRead ==
    LET call == StorageCall("read", "r", <<>>)
        l == Lookup(fs_sequence, writefs, "open", StoragePath)
        r == open_read(View(fs_sequence), cachefs, StoragePath, "r")
    IN
    IF Caching
    THEN Called([call EXCEPT !.err = convert_fs_errors(r.err),
                             !.answer = r.content],
                fs_sequence, r.cachefs)
    ELSE Called([call EXCEPT !.err = convert_fs_errors(l.err),
                             !.answer = l.answer],
                fs_sequence, cachefs)

StorageNext ==
    \/ StorageDelete \/ StorageExists \/ StorageWrite \/ StorageRead

StorageSpec == StorageInit /\ [][StorageNext]_vars

-----------------------------------------------------------------------------
(* utils.make_fs_from_string under thread_locked: threads of one process   *)
(* call it concurrently.  An instance is the string it was built for and   *)
(* its number among the instances built for that string.                   *)

FsStrings == {"tempfs", "/h/d", "~/d", "s3:b", "ftp:b"}

\* os.path.expanduser for the strings that start with '~/' (line 47).
expanduser(string) == IF string = "~/d" THEN "/h/d" ELSE string

NoInstance == <<"none", 0>>

RegistryInit ==
    /\ NoSyncRun /\ NoHideFS
    /\ wrapped_fs = <<>> /\ cachefs = <<>> /\ handles = <<>>
    /\ cache_op = <<>> /\ cache_hist = <<>>
    /\ fs_sequence = <<>> /\ writefs = <<>> /\ layers0 = <<>>
    /\ multi_op = <<>> /\ test_mode = <<>>
    /\ _cache = <<>>
    /\ instances = [k \in {expanduser(x) : x \in FsStrings} |-> 0]
    /\ threads = [t \in 1..MaxThreads |->
                    [pc |-> "idle", string |-> "", calls |-> 0,
                     found |-> NoInstance, result |-> NoInstance]]
    /\ lock = 0

notRegistryVars == <<syncVars, hideVars, cacheVars, multiVars, test_mode>>

\* A thread enters locked_func without taking the lock.
RegistryCallUnlocked ==
    \E t \in DOMAIN threads, string \in FsStrings :
        LET key == expanduser(string) IN
        /\ threads[t].pc = "idle" /\ threads[t].calls < MaxCalls
        /\ threads' = [threads EXCEPT ![t] =
                [pc |-> "in", string |-> string, calls |-> @.calls + 1,
                 found |-> IF string # "tempfs" /\ key \in DOMAIN _cache
                           THEN _cache[key] ELSE NoInstance,
                 result |-> NoInstance]]
        /\ UNCHANGED <<_cache, instances, lock>>
        /\ UNCHANGED notRegistryVars

\* A thread calls make_fs_from_string(string): it takes the lock (line 25)
\* and looks the string up (lines 40-50).
RegistryCall ==
    \E t \in DOMAIN threads, string \in FsStrings :
        LET key == expanduser(string) IN
        /\ threads[t].pc = "idle" /\ threads[t].calls < MaxCalls
        /\ lock = 0
        /\ lock' = t
        /\ threads' = [threads EXCEPT ![t] =
                [pc |-> "in", string |-> string, calls |-> @.calls + 1,
                 found |-> IF string # "tempfs" /\ key \in DOMAIN _cache
                           THEN _cache[key] ELSE NoInstance,
                 result |-> NoInstance]]
        /\ UNCHANGED <<_cache, instances>>
        /\ UNCHANGED notRegistryVars

\* The call builds the instance it did not find and stores it (lines
\* 52-98), or raises ValueError, and returns; the lock is released.
RegistryReturn ==
    \E t \in DOMAIN threads :
        LET th == threads[t]
            key == expanduser(th.string)
            supported == key \in {"tempfs", "/h/d", "s3:b"}
            built == <<key, instances[key] + 1>>
            given == IF th.found # NoInstance THEN th.found
                      ELSE IF supported THEN built
                      ELSE <<"ValueError", 0>>
        IN
        /\ th.pc = "in"
        /\ instances' = IF given = built
                        THEN [instances EXCEPT ![key] = @ + 1]
                        ELSE instances
        /\ _cache' = IF given = built /\ key # "tempfs"
                     THEN [k \in DOMAIN _cache \cup {key} |->
                              IF k = key THEN built ELSE _cache[k]]
                     ELSE _cache
        /\ threads' = [threads EXCEPT ![t] =
                          [@ EXCEPT !.pc = "idle", !.result = given]]
        /\ lock' = IF lock = t THEN 0 ELSE lock
        /\ UNCHANGED notRegistryVars

RegistryNext == RegistryCall \/ RegistryReturn

RegistrySpec == RegistryInit /\ [][RegistryNext]_vars

-----------------------------------------------------------------------------
(* Threads that write through one MultiFS at the same time.  Each call of  *)
(* a layer is atomic; @synchronize takes self._lock, which fs.base.FS      *)
(* makes an RLock when thread_synchronize is set and a lock that does      *)
(* nothing otherwise.  lock.holder is the thread inside a synchronized     *)
(* method, 0 for none.                                                     *)

WriterPaths == {<<"/", "a", "/", "b">>, <<"/", "a", "/", "c">>}

\* MultiFS(thread_synchronize=...) with the write layer added last and a
\* read-only layer under it; make_layered_fs passes False (layeredfs.py 31).
WritersInit ==
    /\ NoSyncRun /\ NoHideFS
    /\ wrapped_fs = <<>> /\ cachefs = <<>> /\ handles = <<>>
    /\ cache_op = <<>> /\ cache_hist = <<>>
    /\ test_mode = TestModeOff
    /\ _cache = <<>> /\ instances = <<>>
    /\ \E l1 \in MultiTrees(1), l2 \in MultiTrees(2), en \in BOOLEAN :
        /\ WellFormedSource(l1) /\ WellFormedSource(l2)
        /\ FilePaths(l1) = {}
        /\ FilePaths(l2) \subseteq {<<"/", "a", "/", "b">>}
        /\ fs_sequence = make_layered_fs([l1 EXCEPT !.enoent = en],
                                         l2).fs_sequence
        /\ writefs = make_layered_fs(l1, l2).writefs
    /\ layers0 = fs_sequence
    /\ multi_op = MultiOp("init", NoPath)
    /\ threads = [t \in 1..MaxThreads |->
                    [pc |-> "idle", path |-> NoPath, attempts |-> 0,
                     err |-> "none"]]
    /\ \E thread_synchronize \in BOOLEAN :
          lock = [thread_synchronize |-> thread_synchronize, holder |-> 0]

notWriterVars ==
    <<syncVars, hideVars, cacheVars, test_mode, _cache, instances, writefs, layers0,
      multi_op>>

\* The synchronized method is left: the thread has its outcome and the
\* lock is released.
Left(th, e) == [th EXCEPT !.pc = "done", !.err = e]

\* A thread calls open(path, 'w') and takes self._lock (multifs.py 113).
WriterCall ==
    \E t \in DOMAIN threads, p \in WriterPaths :
        /\ threads[t].pc = "idle"
        /\ lock.thread_synchronize => lock.holder = 0
        /\ lock' = IF lock.thread_synchronize
                   THEN [lock EXCEPT !.holder = t] ELSE lock
        /\ threads' = [threads EXCEPT ![t] =
                          [@ EXCEPT !.pc = "attempt", !.path = p]]
        /\ UNCHANGED fs_sequence
        /\ UNCHANGED notWriterVars

\* super().open(path, mode) on the write layer, inside the context manager
\* (line 120) or after CreatedDirectory (line 122).  Of the errors of the
\* first attempt the handler takes ResourceNotFoundError (line 164).
WriterAttempt ==
    \E t \in DOMAIN threads :
        LET th == threads[t]
            r == wrapped_open(fs_sequence[writefs.fs], th.path, "w")
            handled == th.attempts = 0 /\ r.err = "ResourceNotFoundError"
        IN
        /\ th.pc = "attempt"
        /\ fs_sequence' = [fs_sequence EXCEPT ![writefs.fs] = r.fs]
        /\ threads' = [threads EXCEPT ![t] =
                IF handled
                THEN [th EXCEPT !.pc = "except", !.attempts = 1,
                                !.err = r.err]
                ELSE [Left(th, r.err) EXCEPT !.attempts = @ + 1]]
        /\ lock' = IF handled THEN lock ELSE [lock EXCEPT !.holder = 0]
        /\ UNCHANGED notWriterVars

\* if not fs.writefs.exists(parent_dir) (line 171); raise (line 175) when
\* the directory is there.
WriterExists ==
    \E t \in DOMAIN threads :
        LET th == threads[t]
            there == exists(fs_sequence[writefs.fs], dirname(th.path))
        IN
        /\ th.pc = "except"
        /\ threads' = [threads EXCEPT ![t] =
                IF there THEN Left(th, th.err)
                ELSE [th EXCEPT !.pc = "makedir"]]
        /\ lock' = IF there THEN [lock EXCEPT !.holder = 0] ELSE lock
        /\ UNCHANGED fs_sequence
        /\ UNCHANGED notWriterVars

\* fs.writefs.makedir(parent_dir, recursive=True, allow_recreate=True);
\* raise CreatedDirectory (lines 172-173).
WriterMakedir ==
    \E t \in DOMAIN threads :
        LET th == threads[t]
            r == makedir(fs_sequence[writefs.fs], dirname(th.path))
        IN
        /\ th.pc = "makedir"
        /\ fs_sequence' = [fs_sequence EXCEPT ![writefs.fs] = r.fs]
        /\ threads' = [threads EXCEPT ![t] =
                IF r.err = "ok" THEN [th EXCEPT !.pc = "attempt"]
                ELSE Left(th, r.err)]
        /\ lock' = IF r.err = "ok" THEN lock ELSE [lock EXCEPT !.holder = 0]
        /\ UNCHANGED notWriterVars

WritersNext ==
    \/ WriterCall \/ WriterAttempt \/ WriterExists \/ WriterMakedir

WritersSpec == WritersInit /\ [][WritersNext]_vars

-----------------------------------------------------------------------------
(* Vocabulary of the properties.                                           *)

Count(a, seq) == Cardinality({i \in 1..Len(seq) : seq[i] = a})

IsPrefix(s, t) == Len(s) <= Len(t) /\ SubSeq(t, 1, Len(s)) = s

EmittedPaths(f) ==
    {emitted[i].path : i \in {j \in 1..Len(emitted) : emitted[j].func = f}}

EmittedTimes(f) == Cardinality({j \in 1..Len(emitted) : emitted[j].func = f})

\* The (path, size) file entries walk_files lists.
FileEntries(fs) == {<<n.path, n.size>> : n \in Range(walk_files(fs))}

\* The actions the stream would still yield, were the target left as it is.
RECURSIVE RunActions(_, _, _, _)
RunActions(g, sfs, tfs, del) ==
    LET r == ActionsNext(g, sfs, tfs, del) IN
    IF r.action = NoAction THEN <<>>
    ELSE <<r.action>> \o RunActions(r.gen, sfs, tfs, del)

\* The target after the given actions, performed one after the other.
RECURSIVE Replay(_, _, _)
Replay(seq, sfs, tfs) ==
    IF seq = <<>> THEN tfs
    ELSE Replay(Tail(seq), sfs, Perform(Head(seq), sfs, tfs).fs)

\* The input lists of sync_files.
InPaths(list) == {n.path : n \in Range(list)}
SizeIn(list, p) == (CHOOSE n \in Range(list) : n.path = p).size

OnlyInSource == InPaths(in_source) \ InPaths(in_target)
OnlyInTarget == InPaths(in_target) \ InPaths(in_source)
InBoth == InPaths(in_source) \cap InPaths(in_target)
Differing == {p \in InBoth : SizeIn(in_source, p) # SizeIn(in_target, p)}

IsNotDelete(a) == a.func # "delete_file"

\* The actions somebody still holds: about to be put, queued, or being
\* performed by a worker.
Running(a) == {w \in DOMAIN workers : workers[w].pc = "run" /\ workers[w].action = a}
Held(a) ==
    (IF pending = a THEN 1 ELSE 0) + Count(a, file_queue)
    + Cardinality(Running(a))
FailedTimes(a) == Cardinality({i \in 1..Len(failed) : failed[i].action = a})

\* An upload that ran out of attempts is among the failures.
UploadExhausted ==
    \E i \in 1..Len(failed) :
        failed[i].err = "Exception" /\ failed[i].action.func = "upload_file"

\* No party of the run is able to go on: no step of the run is possible.
\* (A worker polling an empty queue with finished unset is at rest.)
AtRest ==
    /\ ~AtLoop
    /\ ~AtReturned
    /\ ~AtNext /\ ~AtPut /\ ~AtJoined
    /\ \A w \in DOMAIN workers : ~CanGet(w) /\ ~CanExit(w) /\ ~Performing(w)

\* Every worker process has ended and sync_files has returned or raised.
Terminated ==
    /\ status \in {"returned", "raised"}
    /\ \A w \in DOMAIN workers : workers[w].pc \in {"exited", "died"}

-----------------------------------------------------------------------------
(* The claims.                                                             *)

\* C1: when a sequential sync_fs with delete_missing=True returns, the
\* (path, size) file entries of the target, as walk_files lists them, are
\* those of the origin (origins without dangling links).
C1_TargetMirrorsOrigin ==
    (processes = 0 /\ run = 1 /\ status = "returned" /\ delete_missing
        /\ source_fs.broken = {})
    => FileEntries(target_fs) = FileEntries(source_fs)

\* C2: on strictly sorted lists and without delete_missing, the stream holds
\* no Delete, holds an Upload only for a path that is missing on the target
\* or differs in size, each at most once and, when sync_files returns, for
\* every such path; no file other than the uploaded ones is changed or
\* removed and no directory is removed.
C2_UploadsExactlyTheDifference ==
    ~delete_missing =>
        /\ EmittedPaths("delete_file") = {}
        /\ EmittedPaths("upload_file") \subseteq OnlyInSource \cup Differing
        /\ EmittedTimes("upload_file") = Cardinality(EmittedPaths("upload_file"))
        /\ status = "returned"
             => EmittedPaths("upload_file") = OnlyInSource \cup Differing
        /\ \A p \in (FilePaths(target0) \cup FilePaths(target_fs))
                        \ EmittedPaths("upload_file") :
                /\ p \in FilePaths(target0) /\ p \in FilePaths(target_fs)
                /\ target_fs.files[p] = target0.files[p]
        /\ target0.dirs \subseteq target_fs.dirs

\* C2 witness: a returned run without delete_missing that uploaded a new
\* path and a path of another size, and left a target-only path alone.
C2_Witness ==
    /\ ~delete_missing /\ status = "returned" /\ in_source # NoList
    /\ EmittedPaths("upload_file") \cap OnlyInSource # {}
    /\ EmittedPaths("upload_file") \cap Differing # {}
    /\ OnlyInTarget # {}

\* C3: on strictly sorted lists and with delete_missing, the Upload and Skip
\* actions of the stream are those of the stream without delete_missing, in
\* the same order (uploads for the missing and the differing paths, skips
\* for the equal ones), and the Deletes are, each once, exactly the paths
\* the target alone has.
C3_DeletesExactlyTargetOnly ==
    delete_missing =>
        LET plain == RunActions(NewGen(ListWalk(in_source), ListWalk(in_target)),
                                source_fs, target0, FALSE)
            kept == SelectSeq(emitted, IsNotDelete)
        IN  /\ IsPrefix(kept, plain)
            /\ EmittedPaths("upload_file") \subseteq OnlyInSource \cup Differing
            /\ EmittedPaths("skip_file") \subseteq InBoth \ Differing
            /\ EmittedPaths("delete_file") \subseteq OnlyInTarget
            /\ EmittedTimes("delete_file") = Cardinality(EmittedPaths("delete_file"))
            /\ status = "returned" =>
                /\ kept = plain
                /\ EmittedPaths("upload_file") = OnlyInSource \cup Differing
                /\ EmittedPaths("skip_file") = InBoth \ Differing
                /\ EmittedPaths("delete_file") = OnlyInTarget

\* C3 witness: a returned run with delete_missing that deleted, uploaded and
\* skipped.
C3_Witness ==
    /\ delete_missing /\ status = "returned" /\ in_source # NoList
    /\ EmittedPaths("delete_file") # {}
    /\ EmittedPaths("upload_file") # {}
    /\ EmittedPaths("skip_file") # {}

\* C4: the second of two consecutive sequential sync_fs runs with
\* delete_missing=True yields only Skip actions and leaves the target as the
\* first run left it (origins without dangling links).
C4_SecondRunOnlySkips ==
    (processes = 0 /\ run = 2 /\ delete_missing /\ source_fs.broken = {})
    => /\ \A i \in 1..Len(emitted) : emitted[i].func = "skip_file"
       /\ target_fs = target0

\* C5: in a parallel run no two actions that are held at the same time
\* (about to be put, queued or being performed) are for the same path.
C5_NoTwoHeldActionsOnOnePath ==
    processes > 0 =>
        \A a \in Range(emitted), b \in Range(emitted) :
            (a.path = b.path /\ Held(a) > 0 /\ Held(b) > 0)
            => (a = b /\ Held(a) = 1)

\* C6: in a parallel run without a failing action, every action the stream
\* yielded is held by one party or has been performed once, never both and
\* never twice, and when sync_files returns each has been performed exactly
\* once.
C6_EachActionExactlyOnce ==
    (processes > 0 /\ failed = <<>>) =>
        /\ \A a \in Range(emitted) \cup Range(applied) :
                Count(a, emitted) = Held(a) + Count(a, applied)
        /\ status = "returned" =>
                /\ Len(applied) = Len(emitted)
                /\ RunActions(gen, source_fs, target_fs, delete_missing) = <<>>

\* C6 witness: a two-worker run that returned after three or more actions.
C6_Witness ==
    /\ processes = 2 /\ status = "returned" /\ failed = <<>>
    /\ Len(applied) >= 3

\* C7: when a parallel run in which exactly one action raised has come to
\* rest, errored is set, every other action of the run has been performed
\* once and sync_files has returned False.
C7_OneFailureReturnsFalse ==
    (processes > 0 /\ Len(failed) = 1 /\ status # "raised"
        /\ AtRest)
    => /\ errored
       /\ \A a \in Range(emitted) :
            Count(a, emitted) = Count(a, applied) + FailedTimes(a)
       /\ status = "returned"
       /\ result = "False"

\* C8: a parallel run that can take no further step has terminated:
\* sync_files has returned and every worker process has ended (stated for
\* the runs whose producer does not raise).
C8_ParallelRunTerminates ==
    (processes > 0 /\ AtRest /\ status # "raised") => Terminated

\* C11: a delete_file whose path is already absent on the target (another
\* party removed it after the target was listed) does not fail: it is never
\* among the failures of a run, so it neither ends a sequential run nor sets
\* errored.
C11_AbsentDeleteIsSuccess ==
    \A i \in 1..Len(failed) :
        ~(/\ failed[i].action.func = "delete_file"
          /\ failed[i].err = "ResourceNotFoundError")

C10_FirstErrorEndsSequentialRun ==
    processes = 0 =>
        /\ failed # <<>> =>
            /\ status = "raised" /\ result = "none"
            /\ Len(failed) = 1
            /\ emitted = Append(applied, failed[1].action)
            /\ target_fs = Perform(failed[1].action, source_fs,
                                   Replay(applied, source_fs, target0)).fs
        /\ status = "raised" => failed # <<>>
        /\ result = "True" =>
            /\ failed = <<>>
            /\ applied = emitted
            /\ gen.resume = "done"
            /\ target_fs = Replay(applied, source_fs, target0)

\* C10 witness: a sequential run that raised after performing an action,
\* with actions left in the stream.
C10_Witness ==
    /\ processes = 0 /\ status = "raised"
    /\ Len(applied) >= 1
    /\ RunActions(gen, source_fs, target_fs, delete_missing) # <<>>

\* C12: a read through the CacheFS is never served from a cache entry that
\* was there before a write to the path completed (a setcontents or the
\* close of a write handle), and, when no write handle is open on the path,
\* the stream it returns holds the content the wrapped filesystem has.
C12_NeverServesAnEntryOlderThanAWrite ==
    (cache_op.op = "read" /\ cache_op.err = "ok") =>
        /\ cache_op.hit => ~cache_op.was.stale
        /\ (\A i \in HandleIds : handles[i].path # cache_op.path)
            => cache_op.content = wrapped_fs.files[cache_op.path]

\* C12 witness: a read served from the cache with content that a write
\* through the wrapper produced.
C12_Witness ==
    /\ cache_op.op = "read" /\ cache_op.err = "ok" /\ cache_op.hit
    /\ cache_op.content # <<1>>
    /\ \A i \in HandleIds : handles[i] = NoHandle

\* C13: a read of a file path that has no cache entry opens the path on the
\* wrapped filesystem exactly once; a read that follows a read of the path
\* opens it zero times; a read that follows a completed write to the path
\* opens it once again.
C13_SourceOpenedOnlyOnAMiss ==
    cache_op.op = "read" =>
        /\ (cache_op.path \in CacheFiles /\ ~cache_op.was.cached)
            => cache_op.source_opens = 1
        /\ cache_op.was.cached => cache_op.source_opens = 0
        /\ cache_op.was.last = "read"
            => cache_op.source_opens = 0 /\ cache_op.hit
        /\ cache_op.was.last = "write"
            => cache_op.source_opens = 1 /\ ~cache_op.hit

\* C13 witness: a read that follows a completed write and returns what the
\* write left.
C13_Witness ==
    /\ cache_op.op = "read" /\ cache_op.err = "ok"
    /\ cache_op.was.last = "write"
    /\ cache_op.source_opens = 1
    /\ Len(cache_op.content) = 2

\* C14: opening a path in a write, append or update mode leaves the cache
\* backend as it is, and once the handle has been closed the cache backend
\* holds no entry for the path and the purge has raised nothing: the caller
\* gets the wrapped close's own outcome, also when that close raised and
\* also when there was no entry.
C14_WriteHandlePurgesOnClose ==
    [][/\ cache_op'.op = "open" => cachefs' = cachefs
       /\ cache_op'.op = "close"
            => /\ ~Cached(cachefs', cache_op'.path)
               /\ cache_op'.err = cache_op'.source_err]_vars

\* C14 witness: a handle was closed, the wrapped close raised, and the
\* entry the cache held for the path is gone.
C14_Witness ==
    /\ cache_op.op = "close" /\ cache_op.source_err = "IOError"
    /\ cache_op.was.cached
    /\ ~Cached(cachefs, cache_op.path)

\* C15: after CacheFS.setcontents the cache backend holds no entry for the
\* path, whether the write to the wrapped filesystem succeeded or raised,
\* and when it raised the caller gets that error.
C15_SetContentsAlwaysPurges ==
    cache_op.op = "setcontents" =>
        /\ ~Cached(cachefs, cache_op.path)
        /\ cache_op.source_err # "ok"
            => cache_op.err = cache_op.source_err

\* C15 witness: a setcontents whose write raised in the backend, on a path
\* the cache held an entry for.
C15_Witness ==
    /\ cache_op.op = "setcontents"
    /\ cache_op.source_err = "OperationFailedError"
    /\ cache_op.err = "OperationFailedError"
    /\ cache_op.was.cached
    /\ ~Cached(cachefs, cache_op.path)

-----------------------------------------------------------------------------
(* The layered filesystem.                                                 *)

C17_OnlyTheWriteLayerChanges ==
    [][\A i \in Positions :
          fs_sequence'[i] # fs_sequence[i] =>
              writefs.attr /\ writefs.fs = i /\ writefs' = writefs]_vars

\* A write through a MultiFS whose write layer is read last has repaired
\* the parent directory, which the read-only layer before it has, and
\* changed the write layer alone.
C17_Witness ==
    /\ multi_op.op \in {"open_write", "setcontents"}
    /\ multi_op.made /\ multi_op.err = "ok"
    /\ writefs.attr /\ writefs.fs = 2
    /\ isdir(fs_sequence[1], dirname(multi_op.path))
    /\ fs_sequence[1] = layers0[1]
    /\ fs_sequence[2] # layers0[2]
    /\ isfile(fs_sequence[2], multi_op.path)

\* C18: with no write layer configured, a mutating operation (open in a
\* write or append mode, setcontents, makedir, remove) fails with the
\* no-writable-layer error, OperationFailedError, and changes no layer.
C18_NoWriteLayerIsOperationFailed ==
    [][(/\ multi_op'.op \in {"open_write", "setcontents", "makedir",
                           "remove"}
        /\ NoWriteFS(writefs) # "ok") =>
          /\ multi_op'.err = "OperationFailedError"
          /\ fs_sequence' = fs_sequence]_vars

\* C19: a write (open in w/a/+ mode, setcontents) whose first attempt
\* fails because the parent directory of the path is missing on the write
\* layer creates that directory on the write layer and attempts the
\* operation a second and last time, whose outcome is the caller's.
C19_MissingParentIsRepairedAndRetriedOnce ==
    /\ multi_op.op \in {"open_write", "setcontents"} =>
          multi_op.attempts <= 2
    /\ (/\ multi_op.op \in {"open_write", "setcontents"}
        /\ multi_op.parent_missing
        /\ multi_op.first_err \in {"ResourceNotFoundError",
                                   "ParentDirectoryMissingError"}) =>
          /\ multi_op.made /\ multi_op.attempts = 2
          /\ isdir(fs_sequence[writefs.fs], dirname(multi_op.path))

\* C20: a listing holds the paths of the directory over all layers, each
\* once, ordered by first occurrence when the layers are gone through in
\* priority order; a layer that cannot list the directory adds nothing and
\* the listing does not fail.
C20_ListingIsTheUnionInFirstOccurrenceOrder ==
    multi_op.op = "ilistdir" =>
        LET d == multi_op.path
            listing == multi_op.answer
            lists == multi_op.scanned
            names(i) == IF isdir(fs_sequence[i], d)
                        THEN {n.path : n \in ilistdirinfo(fs_sequence[i], d)}
                        ELSE {}
            layer(x) == CHOOSE i \in Positions :
                            /\ x \in names(i)
                            /\ \A k \in Positions : x \in names(k) => i <= k
            place(x) == CHOOSE k \in DOMAIN lists[layer(x)] :
                            lists[layer(x)][k] = x
            Before(x, y) ==
                \/ layer(x) < layer(y)
                \/ layer(x) = layer(y) /\ place(x) < place(y)
        IN
        /\ multi_op.err = "ok"
        /\ \A i \in Positions : Range(lists[i]) = names(i)
        /\ Range(listing) = UNION {names(i) : i \in Positions}
        /\ \A i, j \in DOMAIN listing :
              i < j => listing[i] # listing[j]
                       /\ Before(listing[i], listing[j])

\* The root has been listed: "/b", which both layers hold, comes once and
\* before "/a", which only layer2 holds.
C20_Witness ==
    /\ multi_op.op = "ilistdir" /\ multi_op.path = Root
    /\ multi_op.answer = << <<"/", "b">>, MultiDir >>
    /\ isfile(fs_sequence[1], <<"/", "b">>)
    /\ isfile(fs_sequence[2], <<"/", "b">>)
    /\ ~exists(fs_sequence[1], MultiDir)
    /\ exists(fs_sequence[2], MultiDir)

-----------------------------------------------------------------------------
(* The walk.                                                               *)

\* C28: on every directory tree (no dangling links) walk_files yields the
\* files of the tree and no directory, each file once, in strictly
\* increasing order of their full paths.
C28_WalkFilesIsStrictlyIncreasing ==
    (status # "idle" /\ source_fs.broken = {}) =>
        LET w == walk_files(source_fs) IN
        /\ {n.path : n \in Range(w)} = FilePaths(source_fs)
        /\ \A i, j \in DOMAIN w : i < j => StrLess(w[i].path, w[j].path)

-----------------------------------------------------------------------------
(* Test mode.                                                              *)

\* C21: in every state reached by addfs, enable_test_mode and
\* disable_test_mode (and reads and writes between them) at most one layer
\* is the write layer, and the write layer, when there is one, is a layer
\* of fs_sequence.
C21_WriteLayerIsOneOfTheLayers ==
    /\ Cardinality({i \in DOMAIN fs_sequence :
                        writefs.attr /\ writefs.fs = i}) <= 1
    /\ (writefs.attr /\ writefs.fs # 0) => writefs.fs \in DOMAIN fs_sequence
    /\ test_mode.on =>
          /\ test_mode.at \in DOMAIN fs_sequence
          /\ test_mode.old.fs \in {0} \cup DOMAIN fs_sequence

\* Test mode was left after a write layer had been added inside it: the
\* write layer is the one from before test mode.
C21_Witness ==
    /\ multi_op.op = "disable_test_mode" /\ multi_op.answer = TRUE
    /\ Len(fs_sequence) = Len(layers0) + 1
    /\ SubSeq(fs_sequence, 2, Len(fs_sequence)) = layers0
    /\ writefs = [attr |-> TRUE, fs |-> Len(fs_sequence)]

\* C22: disable_test_mode after enable_test_mode (no layer added in
\* between) puts fs_sequence and writefs back as enable_test_mode found
\* them; a write in between changes the test layer alone; an
\* enable_test_mode in test mode and a disable_test_mode outside it change
\* nothing.
C22_TestModeIsRestored ==
    [][/\ (multi_op'.op = "disable_test_mode" /\ test_mode.on
              /\ ~test_mode.added) =>
             <<fs_sequence', writefs'>> = test_mode.before
       /\ (test_mode.on /\ test_mode'.on /\ ~test_mode'.added) =>
             /\ Tail(fs_sequence') = test_mode.before[1]
             /\ writefs' = [attr |-> TRUE, fs |-> 1]
       /\ (multi_op'.op = "enable_test_mode" /\ test_mode.on) =>
             UNCHANGED <<fs_sequence, writefs, test_mode>>
       /\ (multi_op'.op = "disable_test_mode" /\ ~test_mode.on) =>
             UNCHANGED <<fs_sequence, writefs, test_mode>>]_vars

\* Test mode was left after a file had been written in it: the file is
\* nowhere to be seen, as before.
C22_Witness ==
    /\ multi_op.op = "disable_test_mode" /\ multi_op.answer = TRUE
    /\ isfile(multi_op.scanned[1], <<"/", "a", "/", "b">>)
    /\ fs_sequence = layers0
    /\ writefs = [attr |-> TRUE, fs |-> 1]
    /\ \A i \in DOMAIN fs_sequence :
          ~exists(fs_sequence[i], <<"/", "a", "/", "b">>)

\* C23: on a CacheFS enable_test_mode puts a fresh, empty backend in place
\* of the cache backend and disable_test_mode puts the original backend
\* back with the entries it had, over every sequence of the two calls: an
\* enable_test_mode in test mode and a disable_test_mode outside it change
\* nothing, and nothing done in test mode touches the original backend.
C23_CacheBackendIsRestored ==
    [][/\ (cache_op'.op = "enable_test_mode" /\ ~test_mode.on) =>
             cachefs' = TempFS /\ test_mode'.on
       /\ (cache_op'.op = "enable_test_mode" /\ test_mode.on) =>
             UNCHANGED <<cachefs, test_mode>>
       /\ (cache_op'.op = "disable_test_mode" /\ test_mode.on) =>
             cachefs' = test_mode.before /\ ~test_mode'.on
       /\ (cache_op'.op = "disable_test_mode" /\ ~test_mode.on) =>
             UNCHANGED <<cachefs, test_mode>>
       /\ (test_mode.on /\ test_mode'.on) =>
             /\ test_mode'.old = test_mode.before
             /\ test_mode'.before = test_mode.before]_vars

\* Test mode was left: the entry cached before it is back, and the
\* disposable backend, used in test mode, went without one.
C23_Witness ==
    /\ cache_op.op = "disable_test_mode" /\ cache_op.switched
    /\ cache_op.left.dirs # {}
    /\ \E p \in CacheFiles : Cached(cachefs, p) /\ ~Cached(cache_op.left, p)

-----------------------------------------------------------------------------
(* The registry of make_fs_from_string.                                    *)

\* C24: over the calls of concurrent threads, at most one instance is
\* ever built for a string other than 'tempfs' ('~/d' and the path it
\* expands to being one string), every call with it returns that instance,
\* no entry of the registry is ever dropped or replaced, 'tempfs' returns
\* a new instance at every call and is not registered, and an unsupported
\* string raises ValueError and adds no entry.
C24_OneInstancePerString ==
    [][/\ \A k \in DOMAIN instances' : k # "tempfs" => instances'[k] <= 1
       /\ \A k \in DOMAIN _cache : k \in DOMAIN _cache' /\ _cache'[k] = _cache[k]
       /\ "tempfs" \notin DOMAIN _cache'
       /\ \A t \in DOMAIN threads :
             (threads[t].pc = "in" /\ threads'[t].pc = "idle") =>
                LET key == expanduser(threads[t].string)
                    given == threads'[t].result
                IN
                /\ key \in {"/h/d", "s3:b"} =>
                      /\ given = <<key, 1>>
                      /\ _cache'[key] = given
                /\ key = "tempfs" =>
                      /\ given = <<key, instances["tempfs"] + 1>>
                      /\ instances'["tempfs"] = instances["tempfs"] + 1
                /\ key = "ftp:b" =>
                      /\ given = <<"ValueError", 0>>
                      /\ _cache' = _cache /\ instances' = instances]_vars

\* Two threads have asked for '~/d' and for '/h/d': both hold the one
\* instance; and two instances of 'tempfs' have been built.
C24_Witness ==
    /\ threads[1].pc = "idle" /\ threads[1].string = "~/d"
    /\ \E t \in DOMAIN threads :
          /\ t # 1 /\ threads[t].pc = "idle" /\ threads[t].string = "/h/d"
          /\ threads[t].result = threads[1].result
    /\ threads[1].result = <<"/h/d", 1>>
    /\ instances["tempfs"] = 2

-----------------------------------------------------------------------------
(* The storage adapter over a layered filesystem.                          *)

\* C25: a storage.exists(P) that follows a storage.delete(P) which
\* returned answers False, whatever the layers held before the delete.
C25_DeletedPathDoesNotExist ==
    (/\ cache_op.op = "exists"
     /\ cache_op.after # <<>>
     /\ cache_op.after[Len(cache_op.after)].op = "delete"
     /\ cache_op.after[Len(cache_op.after)].err = "ok") =>
        cache_op.answer = FALSE

\* C26: P written with W in mode 'w', then A appended in mode 'a', both
\* calls returning: the read of P that follows returns W followed by A,
\* whatever the read-only layer and the cache backend held before.
C26_WriteThenAppendThenReadGivesBoth ==
    (/\ cache_op.op = "read"
     /\ Len(cache_op.after) = 2
     /\ cache_op.after[1].op = "write" /\ cache_op.after[1].mode = "w"
     /\ cache_op.after[1].err = "ok"
     /\ cache_op.after[2].op = "write" /\ cache_op.after[2].mode = "a"
     /\ cache_op.after[2].err = "ok") =>
        /\ cache_op.err = "ok"
        /\ cache_op.answer = cache_op.after[1].data \o cache_op.after[2].data

\* C27: a storage.delete(P) called when no layer holds P returns without
\* raising and leaves every layer, and the cache backend, as it was.
C27_DeleteOfMissingPathIsIdempotent ==
    [][(/\ cache_op'.op = "delete"
        /\ Search(fs_sequence, "exists", StoragePath, 1) = 0) =>
            /\ cache_op'.err = "ok"
            /\ fs_sequence' = fs_sequence
            /\ cachefs' = cachefs]_vars

\* P was written and deleted, and the delete was repeated: the second one
\* found P in no layer and returned.
C27_Witness ==
    /\ cache_op.op = "delete" /\ ~cache_op.found /\ cache_op.err = "ok"
    /\ Len(cache_op.after) = 2
    /\ cache_op.after[1].op = "write" /\ cache_op.after[1].err = "ok"
    /\ cache_op.after[2].op = "delete" /\ cache_op.after[2].err = "ok"

-----------------------------------------------------------------------------
(* Concurrent writers on one layered filesystem.                           *)

\* C29: while a writer is in its repair sequence (its first attempt has
\* failed for the missing directory and it has not left the call yet), no
\* other writer takes a step on the same MultiFS, whether the MultiFS was
\* built with the lock or, as make_layered_fs does, without it.
C29_RepairSequenceIsNotInterleaved ==
    [][\A t, u \in DOMAIN threads :
          (/\ threads[t].pc \in {"except", "makedir", "attempt"}
           /\ threads[t].attempts = 1
           /\ threads'[u] # threads[u]) => u = t]_vars

\* C30: writers have written files under a directory that was missing on
\* the write layer; when all have left their call, each has succeeded.
C30_RacingRepairsAreHarmless ==
    (/\ \A t \in DOMAIN threads : threads[t].pc = "done"
     /\ ~isdir(layers0[writefs.fs], MultiDir)) =>
        \A t \in DOMAIN threads : threads[t].err = "ok"

-----------------------------------------------------------------------------
(* The retry loop of upload_file.                                          *)

\* C33: for every path, upload_file calls copy_file at most RetryBound (100)
\* times; every call but the last failed with a missing parent or a
\* not-found error; a call that succeeds is the last and upload_file
\* returns; an error of another kind is the last call's and is the
\* caller's; the loop's own exception is raised only after RetryBound
\* recoverable failures, and no recoverable error ever reaches the caller.
\* A Delete is one remove and a Skip changes nothing: neither is attempted
\* again, and no action of a run is performed or failed more often than the
\* stream yielded it.
C33_UploadIsAttemptedAtMostRetryBoundTimes ==
    LET Recoverable == {"ParentDirectoryMissingError",
                        "ResourceNotFoundError"}
    IN
    /\ \A p \in CandidateFiles \cup CandidateLinks :
         LET r == upload_file(source_fs, target_fs, p)
             n == Len(r.tries)
         IN
         /\ n \in 1..RetryBound
         /\ \A i \in 1..(n - 1) : r.tries[i] \in Recoverable
         /\ r.tries[n] = "ok" => r.err = "ok"
         /\ r.tries[n] \notin Recoverable \cup {"ok"} => r.err = r.tries[n]
         /\ r.err = "Exception" => n = RetryBound /\ r.tries[n] \in Recoverable
         /\ r.err \notin Recoverable
         /\ delete_file(target_fs, p) = remove(target_fs, p)
         /\ skip_file(target_fs, p) = Ok(target_fs)
    /\ \A a \in Range(emitted) :
         Count(a, applied) + FailedTimes(a) <= Count(a, emitted)
    /\ \A i \in 1..Len(failed) :
         failed[i].action.func # "upload_file" => failed[i].err # "Exception"

\* C33 witness: a sequential run raised for an upload whose RetryBound
\* copy_file calls all failed, after an upload that took two calls.
C33_Witness ==
    /\ processes = 0 /\ status = "raised" /\ UploadExhausted
    /\ Len(upload_file(source_fs, target_fs, failed[1].action.path).tries)
          = RetryBound
    /\ \E i \in 1..Len(applied) :
          /\ applied[i].func = "upload_file"
          /\ Len(upload_file(source_fs, target0, applied[i].path).tries) = 2

\* C34: an upload of a file of the origin whose parent directory is
\* missing on the target and can be created there (no ancestor is a file)
\* does not fail: the directory and its ancestors are created, and the
\* upload ends with the file on the target, with the origin's size.
C34_MissingParentIsCreatedAndTheUploadRetried ==
    [][(/\ Len(emitted') = Len(emitted) + 1
        /\ emitted'[Len(emitted')].func = "upload_file"
        /\ emitted'[Len(emitted')].path \in FilePaths(source_fs)
        /\ ~isdir(target_fs, dirname(emitted'[Len(emitted')].path))
        /\ makedir(target_fs,
                   dirname(emitted'[Len(emitted')].path)).err = "ok") =>
            LET a == emitted'[Len(emitted')] IN
            /\ failed' = failed
            /\ applied' = Append(applied, a)
            /\ Ancestors(dirname(a.path)) \subseteq target_fs'.dirs
            /\ a.path \in FilePaths(target_fs')
            /\ target_fs'.files[a.path] = source_fs.files[a.path]]_vars

\* C34 witness: a file was uploaded to a target that reports a missing
\* parent as not-found and had not the file's directory, which it has now.
C34_Witness ==
    /\ processes = 0 /\ target_fs.enoent
    /\ \E i \in 1..Len(applied) :
          /\ applied[i].func = "upload_file"
          /\ ~isdir(target0, dirname(applied[i].path))
          /\ isdir(target_fs, dirname(applied[i].path))
          /\ applied[i].path \in FilePaths(target_fs)
          /\ Len(upload_file(source_fs, target0, applied[i].path).tries) = 2

\* C35 as stated: the upload of a path that is a dangling symbolic link of
\* the origin is performed without raising: it is not among the failures,
\* it neither ends the run nor sets errored, and it leaves the target as it
\* was.
C35_DanglingLinkIsAbandoned ==
    [][(/\ Len(applied') + Len(failed') = Len(applied) + Len(failed) + 1
        /\ Len(emitted') >= Len(emitted)) =>
            LET a == IF Len(applied') > Len(applied)
                     THEN applied'[Len(applied')]
                     ELSE failed'[Len(failed')].action
            IN
            (a.func = "upload_file" /\ a.path \in source_fs.broken) =>
                /\ failed' = failed
                /\ applied' = Append(applied, a)
                /\ target_fs' = target_fs
                /\ errored' = errored
                /\ status' = status]_vars

\* C35 amended: the same, for an origin that exposes the system path of
\* the link (hassyspath), by which upload_file recognises it.
C35_RecognisedDanglingLinkIsAbandoned ==
    [][(/\ Len(applied') + Len(failed') = Len(applied) + Len(failed) + 1
        /\ Len(emitted') >= Len(emitted)
        /\ source_fs.syspath) =>
            LET a == IF Len(applied') > Len(applied)
                     THEN applied'[Len(applied')]
                     ELSE failed'[Len(failed')].action
            IN
            (a.func = "upload_file" /\ a.path \in source_fs.broken) =>
                /\ failed' = failed
                /\ applied' = Append(applied, a)
                /\ target_fs' = target_fs
                /\ errored' = errored
                /\ status' = status]_vars

\* C35 witness: a parallel run has returned True after the upload of a
\* dangling link and another upload.
C35_Witness ==
    /\ processes > 0 /\ status = "returned" /\ result = "True" /\ ~errored
    /\ source_fs.broken # {} /\ source_fs.syspath
    /\ \E i \in 1..Len(applied) :
          /\ applied[i].func = "upload_file"
          /\ applied[i].path \in source_fs.broken
    /\ \E i \in 1..Len(applied) :
          /\ applied[i].func = "upload_file"
          /\ applied[i].path \in FilePaths(target_fs) \ FilePaths(target0)

-----------------------------------------------------------------------------
(* The order of the actions.                                               *)

\* C36: on strictly path-sorted lists the actions taken from the stream
\* are in strictly increasing path order and every action still to come
\* has a greater path than those taken; the sequential loop performs them
\* one at a time in that order: each step takes a single action from the
\* stream and performs it before the next is taken, so the actions
\* performed are the actions taken, but for the last one when it raised,
\* which ends the run.
C36_ActionsAreAppliedInIncreasingPathOrder ==
    /\ [](/\ \A i, j \in 1..Len(emitted) :
                i < j => StrLess(emitted[i].path, emitted[j].path)
          /\ LET rest == RunActions(gen, source_fs, target_fs,
                                    delete_missing)
             IN  \A i \in 1..Len(emitted), j \in 1..Len(rest) :
                    StrLess(emitted[i].path, rest[j].path)
          /\ IsPrefix(applied, emitted)
          /\ Len(emitted) = Len(applied) + Len(failed)
          /\ Len(failed) <= 1
          /\ failed # <<>> => status = "raised")
    /\ [][/\ Len(emitted') <= Len(emitted) + 1
          /\ Len(emitted') = Len(emitted) + 1 =>
                \/ applied' = Append(applied, emitted'[Len(emitted')])
                \/ /\ applied' = applied
                   /\ failed' = Append(failed,
                          [action |-> emitted'[Len(emitted')],
                           err |-> failed'[Len(failed')].err])]_vars

\* C36 witness: a run that returned after a Delete, an Upload and a Skip on
\* three paths, performed in the order of the paths.
C36_Witness ==
    /\ status = "returned" /\ Len(applied) = 3
    /\ {applied[i].func : i \in 1..3}
          = {"delete_file", "upload_file", "skip_file"}
    /\ StrLess(applied[1].path, applied[2].path)
    /\ StrLess(applied[2].path, applied[3].path)

-----------------------------------------------------------------------------
(* The miss path of CacheFS.open.                                          *)

\* C37: a read of P that finds no cache entry while the wrapped filesystem
\* holds P returns a stream, after it the cache backend holds P, in its
\* directory, with the whole content P has on the wrapped filesystem, and
\* the stream has that content, in mode 'rb' as in mode 'r'.
C37_MissFillsTheCacheWithTheWholeFile ==
    (/\ cache_op.op = "read"
     /\ ~cache_op.was.cached
     /\ cache_op.path \in FilePaths(wrapped_fs)) =>
        /\ cache_op.err = "ok"
        /\ Cached(cachefs, cache_op.path)
        /\ isdir(cachefs, dirname(cache_op.path))
        /\ cachefs.files[cache_op.path] = wrapped_fs.files[cache_op.path]
        /\ (\A i \in HandleIds : handles[i].path # cache_op.path)
            => cache_op.content = wrapped_fs.files[cache_op.path]

\* C38: a read of P that finds no cache entry while the wrapped filesystem
\* has no P raises ResourceNotFoundError, after one open of the wrapped
\* filesystem, and leaves the cache backend as it was.
C38_MissWithoutSourceLeavesTheCacheAlone ==
    [][(/\ cache_op'.op = "read"
        /\ ~Cached(cachefs, cache_op'.path)
        /\ ~exists(wrapped_fs, cache_op'.path)) =>
            /\ cache_op'.err = "ResourceNotFoundError"
            /\ cache_op'.source_opens = 1
            /\ cachefs' = cachefs]_vars

\* C38 witness: such a read has failed on a cache backend that has neither
\* the entry nor its directory, the wrapped filesystem having the
\* directory.
C38_Witness ==
    /\ cache_op.op = "read" /\ cache_op.err = "ResourceNotFoundError"
    /\ ~cache_op.was.cached /\ cache_op.source_opens = 1
    /\ ~exists(wrapped_fs, cache_op.path)
    /\ isdir(wrapped_fs, dirname(cache_op.path))
    /\ ~exists(cachefs, dirname(cache_op.path))

-----------------------------------------------------------------------------
(* The frame of the repair step of MultiFS.                                *)

\* C39: an open in a read mode that fails raises the error of the layers
\* (not found, or not a file) and changes no layer; a write that fails
\* while its parent directory exists on the write layer was attempted
\* once, made no directory, and raises the error of that attempt.
C39_RepairOnlyForWritesUnderAMissingParent ==
    [][/\ (multi_op'.op = "open" /\ multi_op'.err # "ok") =>
            /\ multi_op'.err =
                  IF Search(fs_sequence, "exists", multi_op'.path, 1) = 0
                  THEN "ResourceNotFoundError"
                  ELSE "ResourceInvalidError"
            /\ fs_sequence' = fs_sequence
       /\ (/\ multi_op'.op \in {"open_write", "setcontents"}
           /\ multi_op'.err # "ok"
           /\ NoWriteFS(writefs) = "ok"
           /\ exists(fs_sequence[writefs.fs], dirname(multi_op'.path))) =>
            /\ multi_op'.attempts = 1 /\ ~multi_op'.made
            /\ multi_op'.err = multi_op'.first_err
            /\ \A j \in DOMAIN fs_sequence :
                  fs_sequence'[j].dirs = fs_sequence[j].dirs]_vars

-----------------------------------------------------------------------------
(* remove through a CacheFS.  CacheFS defines open and setcontents only    *)
(* (cachefs.py 41-95): remove is the method it inherits, which removes the *)
(* path from the wrapped filesystem.                                       *)

\* A remove that also purges the entry of the path.
CacheRemovePurging ==
    \E p \in CacheFiles :
        LET r == remove(wrapped_fs, p)
            pr == _purge(cachefs, p)
        IN
        /\ wrapped_fs' = r.fs
        /\ cachefs' = pr.fs
        /\ cache_op' = [op |-> "remove", path |-> p, err |-> r.err,
                        was |-> [cached |-> Cached(cachefs, p)]]
        /\ cache_hist' = [cache_hist EXCEPT ![p] =
                              IF r.err = "ok"
                              THEN [stale |-> FALSE, last |-> "remove"]
                              ELSE @]
        /\ UNCHANGED handles
        /\ UNCHANGED notCacheVars

\* remove(path)
CacheRemove ==
    \E p \in CacheFiles :
        LET r == remove(wrapped_fs, p) IN
        /\ wrapped_fs' = r.fs
        /\ cache_op' = [op |-> "remove", path |-> p, err |-> r.err,
                        was |-> [cached |-> Cached(cachefs, p)]]
        /\ cache_hist' = [cache_hist EXCEPT ![p] =
                              IF r.err = "ok"
                              THEN [stale |-> Cached(cachefs, p),
                                    last |-> "remove"]
                              ELSE @]
        /\ UNCHANGED <<cachefs, handles>>
        /\ UNCHANGED notCacheVars

\* Reads, writes and removes through a CacheFS.
CacheRemoveNext == CacheRead \/ CacheSetContents \/ CacheOpenWrite \/ CacheClose
                   \/ CacheRemove

CacheRemoveSpec == CacheInit /\ [][CacheRemoveNext]_vars

\* C32: a remove of a path through the CacheFS leaves no cache entry for
\* the path, and a read of the path that follows the remove, the path not
\* written again in between, fails with ResourceNotFoundError.
C32_RemoveDestroysTheCacheEntry ==
    /\ (cache_op.op = "remove" /\ cache_op.err = "ok") =>
            ~Cached(cachefs, cache_op.path)
    /\ (/\ cache_op.op = "read" /\ cache_op.was.last = "remove"
        /\ cache_op.path \notin FilePaths(wrapped_fs)) =>
            cache_op.err = "ResourceNotFoundError"

-----------------------------------------------------------------------------
(* A reader and a writer of one path that go through one CacheFS at the    *)
(* same time.  CacheFS.open and CacheFS.setcontents take no lock: each     *)
(* call of a backend is a step of its own.  The cache backend is a TempFS, *)
(* a directory of the local disk: a file removed while it is open stays    *)
(* writable through the open stream and is gone once the stream is closed. *)
(* The stream the wrapped filesystem returns holds the content as it was   *)
(* at open (snapshot: a remote backend, which fetches the file when it is  *)
(* opened) or reads the file when read is called (a local disk).           *)

CachePath == <<"/", "a", "/", "b">>

\* The data a writer may write.
WriterData == UNION {[1..n -> Chunks] : n \in 0..MaxLen}

\* CacheFS(fs, TempFS()); no call is under way.
CacheRaceInit ==
    /\ NoSyncRun /\ NoHideFS
    /\ fs_sequence = <<>> /\ writefs = <<>> /\ layers0 = <<>>
    /\ multi_op = <<>>
    /\ test_mode = TestModeOff
    /\ _cache = <<>> /\ instances = <<>> /\ lock = <<>>
    /\ wrapped_fs \in {w \in CacheSources : WellFormedSource(w)}
    /\ cachefs = TempFS
    /\ handles = <<>> /\ cache_op = <<>> /\ cache_hist = <<>>
    /\ \E snapshot \in BOOLEAN, mode \in ReadModes, data \in WriterData,
          call \in {"setcontents", "open"} :
        threads = [reader |-> [pc |-> "idle", mode |-> mode,
                               snapshot |-> snapshot, old_file |-> NoContent,
                               data |-> NoContent, linked |-> FALSE,
                               err |-> "none"],
                   writer |-> [pc |-> "idle", call |-> call, data |-> data,
                               err |-> "none"]]

notCacheRaceVars ==
    <<syncVars, hideVars, multiVars, test_mode, _cache, instances, lock, handles,
      cache_op, cache_hist>>

CacheReaderAt(pc) == threads.reader.pc = pc

CacheReaderGoes(th) == threads' = [threads EXCEPT !.reader = th]

\* self.cachefs.open(path, mode) (cachefs.py 58-60): a hit returns the
\* stream of the entry, a miss enters the handler.
CacheReaderLooks ==
    LET th == threads.reader IN
    /\ CacheReaderAt("idle")
    /\ CacheReaderGoes(IF Cached(cachefs, CachePath)
                       THEN [th EXCEPT !.pc = "done", !.err = "ok",
                                       !.data = cachefs.files[CachePath]]
                       ELSE [th EXCEPT !.pc = "miss"])
    /\ UNCHANGED <<wrapped_fs, cachefs>>
    /\ UNCHANGED notCacheRaceVars

\* old_file = super(CacheFS, self).open(path, mode='rb') (line 64)
CacheReaderOpensSource ==
    LET th == threads.reader
        r == open_readThrough(wrapped_fs, cachefs, CachePath, "rb")
    IN
    /\ CacheReaderAt("miss")
    /\ CacheReaderGoes(IF r.err # "ok"
                       THEN [th EXCEPT !.pc = "done", !.err = r.err]
                       ELSE [th EXCEPT !.pc = "opened",
                                       !.old_file = r.content])
    /\ UNCHANGED <<wrapped_fs, cachefs>>
    /\ UNCHANGED notCacheRaceVars

\* new_file = self.cachefs.open(path, 'wb'), after a makedir when it
\* raised ResourceNotFoundError (lines 67-75): the entry is there, empty.
CacheReaderOpensEntry ==
    LET th == threads.reader
        first == setcontents(cachefs, CachePath, <<>>)
        made == makedir(cachefs, dirname(CachePath))
        r == IF first.err # "ResourceNotFoundError" THEN first
             ELSE IF made.err # "ok" THEN made
             ELSE setcontents(made.fs, CachePath, <<>>)
    IN
    /\ CacheReaderAt("opened")
    /\ cachefs' = r.fs
    /\ CacheReaderGoes(IF r.err # "ok"
                       THEN [th EXCEPT !.pc = "done", !.err = r.err]
                       ELSE [th EXCEPT !.pc = "copy", !.linked = TRUE])
    /\ UNCHANGED wrapped_fs
    /\ UNCHANGED notCacheRaceVars

\* old_file.seek(0); old_file.read() (lines 76-77)
CacheReaderReads ==
    LET th == threads.reader IN
    /\ CacheReaderAt("copy")
    /\ CacheReaderGoes([th EXCEPT !.pc = "write",
                           !.data = IF th.snapshot THEN th.old_file
                                    ELSE IF CachePath \in FilePaths(wrapped_fs)
                                    THEN wrapped_fs.files[CachePath]
                                    ELSE th.old_file])
    /\ UNCHANGED <<wrapped_fs, cachefs>>
    /\ UNCHANGED notCacheRaceVars

\* new_file.write(...); new_file.close() and the stream that is returned:
\* old_file for 'rb', self.cachefs.open(path, mode) otherwise (lines
\* 77-88).
CacheReaderWrites ==
    LET th == threads.reader
        cfs == IF th.linked
               THEN [cachefs EXCEPT !.files[CachePath] = th.data]
               ELSE cachefs
    IN
    /\ CacheReaderAt("write")
    /\ cachefs' = cfs
    /\ CacheReaderGoes([th EXCEPT !.pc = "done", !.linked = FALSE,
                           !.err = IF th.mode = "rb" \/ Cached(cfs, CachePath)
                                   THEN "ok"
                                   ELSE "ResourceNotFoundError"])
    /\ UNCHANGED wrapped_fs
    /\ UNCHANGED notCacheRaceVars

CacheWriterGoes(th) == threads' = [threads EXCEPT !.writer = th]

\* open(path, 'w'): super(CacheFS, self).open(path, mode=mode) (line 49)
CacheWriterOpens ==
    LET th == threads.writer
        r == wrapped_open(wrapped_fs, CachePath, "w")
    IN
    /\ th.pc = "idle" /\ th.call = "open"
    /\ wrapped_fs' = r.fs
    /\ CacheWriterGoes(IF r.err # "ok"
                       THEN [th EXCEPT !.pc = "done", !.err = r.err]
                       ELSE [th EXCEPT !.pc = "opened"])
    /\ UNCHANGED cachefs
    /\ UNCHANGED notCacheRaceVars

\* The data reaches the wrapped filesystem: super().setcontents (line 93),
\* or write and super(CacheFile, self).close() (line 106).
CacheWriterWrites ==
    LET th == threads.writer
        r == setcontents(wrapped_fs, CachePath, th.data)
    IN
    /\ \/ th.pc = "idle" /\ th.call = "setcontents"
       \/ th.pc = "opened"
    /\ wrapped_fs' = r.fs
    /\ CacheWriterGoes([th EXCEPT !.pc = "purge", !.err = r.err])
    /\ UNCHANGED cachefs
    /\ UNCHANGED notCacheRaceVars

\* self._purge(path) in the finally clause (lines 95, 108): an entry the
\* reader holds open is unlinked.
CacheWriterPurges ==
    LET th == threads.writer
        r == _purge(cachefs, CachePath)
    IN
    /\ th.pc = "purge"
    /\ cachefs' = r.fs
    /\ threads' = [threads EXCEPT
                      !.writer = [th EXCEPT !.pc = "done"],
                      !.reader = [@ EXCEPT !.linked = FALSE]]
    /\ UNCHANGED wrapped_fs
    /\ UNCHANGED notCacheRaceVars

CacheRaceNext ==
    \/ CacheReaderLooks \/ CacheReaderOpensSource \/ CacheReaderOpensEntry
    \/ CacheReaderReads \/ CacheReaderWrites
    \/ CacheWriterOpens \/ CacheWriterWrites \/ CacheWriterPurges

CacheRaceSpec == CacheRaceInit /\ [][CacheRaceNext]_vars

\* C31: once the reader and the writer of the path have both completed,
\* the writer's data written, the cache backend has no entry for the path
\* or an entry whose content is the content of the path in the wrapped
\* filesystem.
C31_NoEntryOlderThanACompletedWrite ==
    (/\ threads.reader.pc = "done" /\ threads.writer.pc = "done"
     /\ threads.writer.err = "ok") =>
        \/ ~Cached(cachefs, CachePath)
        \/ cachefs.files[CachePath] = wrapped_fs.files[CachePath]

-----------------------------------------------------------------------------
(* wrapfs/hidefs.py: HideFS, a WrapFS that hides the resources of which a  *)
(* part of the path matches one of its wildcards.  A wildcard is a         *)
(* sequence of characters in which "*" stands for any characters.  A       *)
(* listing is the bag of what the call yields: how often each item.        *)

\* re.compile(fnmatch.translate(wildcard)).match(part)
RECURSIVE fnmatch(_, _)
fnmatch(part, wildcard) ==
    IF wildcard = <<>> THEN part = <<>>
    ELSE IF Head(wildcard) = "*"
    THEN \/ fnmatch(part, Tail(wildcard))
         \/ part # <<>> /\ fnmatch(Tail(part), wildcard)
    ELSE /\ part # <<>> /\ Head(part) = Head(wildcard)
         /\ fnmatch(Tail(part), Tail(wildcard))

\* fs.path.iteratepath: the names between the slashes.
RECURSIVE iteratepath(_)
iteratepath(p) ==
    IF p = <<>> THEN <<>>
    ELSE IF Head(p) = "/" THEN iteratepath(Tail(p))
    ELSE LET n == IF \E k \in 1..Len(p) : p[k] = "/"
                  THEN (CHOOSE k \in 1..Len(p) :
                           p[k] = "/" /\ \A m \in 1..(k-1) : p[m] # "/") - 1
                  ELSE Len(p)
         IN  <<SubSeq(p, 1, n)>> \o iteratepath(SubSeq(p, n + 1, Len(p)))

\* HideFS._should_hide(path)
_should_hide(wildcards, p) ==
    \E part \in Range(iteratepath(p)), wildcard \in wildcards :
        fnmatch(part, wildcard)

_should_show(wildcards, p) == ~_should_hide(wildcards, p)

\* utils.pathcombine(path1, path2)
pathcombine(path1, path2) ==
    IF path1 = Root THEN <<"/">> \o path2 ELSE path1 \o <<"/">> \o path2

\* The names wrapped_fs.listdir(path) lists.
EntryNames(fs, d) ==
    {LET parts == iteratepath(q) IN parts[Len(parts)] :
        q \in {r \in FilePaths(fs) \cup fs.dirs : dirname(r) = d}}

\* What a listing call is asked for: names, or full=True.
ListingKinds == {"names", "full"}

\* The entry as super().listdir / ilistdir / ilistdirinfo hands it over.
Entry(d, name, kind) == IF kind = "full" THEN pathcombine(d, name) ELSE name

\* should_show(entry) of listdir, ilistdir and ilistdirinfo
ShownNames(wildcards, fs, d, kind) ==
    {name \in EntryNames(fs, d) :
        _should_show(wildcards,
                     IF kind = "full" THEN Entry(d, name, kind)
                     ELSE pathcombine(d, Entry(d, name, kind)))}

\* WrapFS: self._encode(path) raises before the wrapped filesystem is
\* called, which raises for a path that is no directory.
ListingError(wildcards, fs, d) ==
    IF _should_hide(wildcards, d) THEN "ResourceNotFoundError"
    ELSE IF d \in FilePaths(fs) THEN "ResourceInvalidError"
    ELSE IF ~isdir(fs, d) THEN "ResourceNotFoundError"
    ELSE "ok"

Yields(items, times) == [item \in items |-> times]

HidePaths ==
    {<<"/", "a">>, <<"/", ".", "a">>,
     <<"/", "a", "/", "b">>, <<"/", "a", "/", "a", ".", "b">>}

HideTrees ==
    {MkFS([files |-> f, dirs |-> d], {}, TRUE, FALSE) :
        f \in UNION {[S -> {<<1>>}] : S \in SUBSET HidePaths},
        d \in SUBSET {<<"/", "a">>}}

HideWildcards == {<<"a">>, <<"*", ".", "b">>, <<".", "*">>}

\* HideFS(wrapped_fs, *hide_wildcards)
HideInit ==
    /\ NoSyncRun /\ NoThreads
    /\ cachefs = <<>> /\ handles = <<>>
    /\ cache_op = <<>> /\ cache_hist = <<>>
    /\ fs_sequence = <<>> /\ writefs = <<>> /\ layers0 = <<>>
    /\ multi_op = <<>>
    /\ test_mode = <<>>
    /\ wrapped_fs \in {t \in HideTrees : WellFormedSource(t)}
    /\ _hide_wildcards \in SUBSET HideWildcards
    /\ hide_op = [op |-> "init"]

notHideVars ==
    <<syncVars, cachefs, handles, cache_op, cache_hist, multiVars,
      test_mode, threadVars, wrapped_fs, _hide_wildcards>>

\* exists(path)
HideExists ==
    \E p \in HidePaths \cup {Root} :
        /\ hide_op' = [op |-> "exists", path |-> p,
                       result |-> IF _should_hide(_hide_wildcards, p)
                                  THEN FALSE
                                  ELSE exists(wrapped_fs, p)]
        /\ UNCHANGED notHideVars

\* open(path, 'r'): WrapFS.open calls self._encode(path) first.
HideOpen ==
    \E p \in HidePaths :
        /\ hide_op' =
            [op |-> "open", path |-> p,
             err |-> IF _should_hide(_hide_wildcards, p)
                     THEN "ResourceNotFoundError"
                     ELSE open_readThrough(wrapped_fs, wrapped_fs, p,
                                           "r").err]
        /\ UNCHANGED notHideVars

\* The call of a listing method: its error, or what it yields.
Listed(op, d, kind, yields) ==
    LET e == ListingError(_hide_wildcards, wrapped_fs, d) IN
    /\ hide_op' = [op |-> op, path |-> d, kind |-> kind, err |-> e,
                   yields |-> IF e = "ok" THEN yields ELSE Yields({}, 1)]
    /\ UNCHANGED notHideVars

\* An ilistdir that yields the entries.
HideIlistdirEntries ==
    \E d \in HidePaths \cup {Root}, kind \in ListingKinds :
        Listed("ilistdir", d, kind,
               Yields({Entry(d, name, kind) :
                          name \in ShownNames(_hide_wildcards, wrapped_fs,
                                              d, kind)}, 1))

\* listdir(path, **kwargs)
HideListdir ==
    \E d \in HidePaths \cup {Root}, kind \in ListingKinds :
        Listed("listdir", d, kind,
               Yields({Entry(d, name, kind) :
                          name \in ShownNames(_hide_wildcards, wrapped_fs,
                                              d, kind)}, 1))

\* ilistdir(path, **kwargs): "yield path" for every entry to show.
HideIlistdir ==
    \E d \in HidePaths \cup {Root}, kind \in ListingKinds :
        LET shown == ShownNames(_hide_wildcards, wrapped_fs, d, kind) IN
        Listed("ilistdir", d, kind,
               Yields(IF shown = {} THEN {} ELSE {d}, Cardinality(shown)))

\* ilistdirinfo(path, **kwargs): the names of the (name, info) entries.
HideIlistdirinfo ==
    \E d \in HidePaths \cup {Root}, kind \in ListingKinds :
        Listed("ilistdirinfo", d, kind,
               Yields({Entry(d, name, kind) :
                          name \in ShownNames(_hide_wildcards, wrapped_fs,
                                              d, kind)}, 1))

HideNext ==
    \/ HideExists \/ HideOpen
    \/ HideListdir \/ HideIlistdir \/ HideIlistdirinfo

HideSpec == HideInit /\ [][HideNext]_vars

\* The entries of directory d that no wildcard hides, each once.
Visible(d, kind) ==
    Yields({Entry(d, name, kind) :
               name \in {n \in EntryNames(wrapped_fs, d) :
                            ~_should_hide(_hide_wildcards,
                                          pathcombine(d, n))}}, 1)

\* C40: for a path a wildcard hides, exists is False, open raises
\* ResourceNotFoundError and so does every listing; for any other path
\* exists and open answer as the wrapped filesystem does, and listdir,
\* ilistdir and ilistdirinfo of a directory yield the entries of the
\* wrapped directory that no wildcard hides, each once.
C40_HiddenPathsAreAbsentAndTheOthersListed ==
    LET hidden == _should_hide(_hide_wildcards, hide_op.path) IN
    /\ hide_op.op = "exists" =>
          hide_op.result = (~hidden /\ exists(wrapped_fs, hide_op.path))
    /\ hide_op.op = "open" =>
          hide_op.err = IF hidden THEN "ResourceNotFoundError"
                        ELSE open_readThrough(wrapped_fs, wrapped_fs,
                                              hide_op.path, "r").err
    /\ hide_op.op \in {"listdir", "ilistdir", "ilistdirinfo"} =>
          /\ hidden => hide_op.err = "ResourceNotFoundError"
          /\ (~hidden /\ isdir(wrapped_fs, hide_op.path)) =>
                /\ hide_op.err = "ok"
                /\ hide_op.yields = Visible(hide_op.path, hide_op.kind)

====
